---- MODULE Spec2Model ----
(***************************************************************************)
(* State-machine model of the incremental collection-and-checkpoint engine *)
(* of mina-pipeline: collect/mcloud-fetch-urls.py (checkpoint tracker,     *)
(* pre-scan, paginated fetch loop with backoff, id-deduplicated append).   *)
(*                                                                         *)
(* One process runs at a time.  A run is: load_existing_ids,               *)
(* load_checkpoint, prescan_and_mark_complete, the (day, source) fetch     *)
(* loop, the final save.  The process may be killed at any step; the       *)
(* output file and the checkpoint file survive, memory does not.  Between  *)
(* runs the operator may edit the topic's query.                           *)
(***************************************************************************)
EXTENDS Integers, Sequences, FiniteSets, TLC

\* ---------------------------------------------------------------- bounds
\* days in [start_date, end_date], as ordinals 1..NumDays (1 = start_date)
NumDays == 1
\* cap on consecutive transient failures of one page request (the code has none):
\* in the exploration of whole runs with kills, and in the exploration of the retry loop
MaxRetriesInRun == 1
\* calendar days on which runs are started
MaxRunDays == 2
MaxConsecutiveErrors == 5

\* ------------------------------------------------------ program constants
INITIAL_WAIT == 40
MAX_WAIT == 600
\* get_expected_count: for attempt in range(1, 4)
COUNT_ATTEMPTS == 3

\* ------------------------------------------------------ configuration
\* topic_config["outlets"]: domain -> source id, in dict iteration order
Outlets == <<"foxnews.com", "cnn.com">>

SourceId(src) == IF src = "foxnews.com" THEN 1092 ELSE 1095

\* topic_config["name"]
Topic == "minneapolis-ice"

\* the topic's query text before and after an edit of config.py
QUERY_A == "Minneapolis AND ICE"
QUERY_B == "Minnesota AND ICE"
Queries == {QUERY_A, QUERY_B}

Days == 1..NumDays
OutletSet == {Outlets[i] : i \in 1..Len(Outlets)}
\* a unit of work: <<day, source name>>
Units == Days \X OutletSet
NumUnits == NumDays * Len(Outlets)

Min(a, b) == IF a <= b THEN a ELSE b

\* ------------------------------------------------------ search API (collaborator)
\* client.story_list(query, day, day, source_ids=[sid]): the pages of story ids the
\* API holds for a query and unit; fixed over time.
StoryPages(q, day, src) ==
    IF src # "foxnews.com" THEN << >>
    ELSE IF q = QUERY_A
         THEN (IF day = 1 THEN << <<1, 2>> >>
               ELSE IF day = 2 THEN << <<3>> >> ELSE << >>)
         ELSE (IF day = 1 THEN << <<2, 4>>, <<5>> >>
               ELSE IF day = 2 THEN << <<3>> >> ELSE << >>)

RECURSIVE FlatPages(_, _)
\* the stories of the first k pages, in order
FlatPages(pages, k) ==
    IF k = 0 THEN << >> ELSE FlatPages(pages, k - 1) \o pages[k]

AllStories(q, day, src) ==
    FlatPages(StoryPages(q, day, src), Len(StoryPages(q, day, src)))

SeqSet(s) == {s[i] : i \in 1..Len(s)}

\* the sequences of at most n elements of a set
SeqsUpTo(S, n) == UNION {[1..k -> S] : k \in 0..n}

\* day.isoformat() of the days of [start_date, end_date]
START_DATE == "2026-01-01"
day_str(day) ==
    CASE day = 1 -> START_DATE
      [] day = 2 -> "2026-01-02"
      [] day = 3 -> "2026-01-03"

\* the story object the API returns for an id, as DateTimeEncoder writes its date
Story(id, day, src) ==
    [id |-> id, publish_date |-> day_str(day), media_url |-> src]

\* client.story_count answers: a mapping with the matching count, or an exception
CountOk(q, day, src) ==
    [kind |-> "dict",
     body |-> [k \in {"relevant", "total"} |->
                 IF k = "relevant" THEN Len(AllStories(q, day, src))
                 ELSE Len(AllStories(q, day, src)) + 10]]
CountInt(q, day, src) == [kind |-> "int", value |-> Len(AllStories(q, day, src))]
Count429 == [kind |-> "raise", message |-> "API Server Error 429. Params: {}"]
CountErr == [kind |-> "raise", message |-> "API Server Error 500. Params: {}"]

\* what the attempts of one get_expected_count call may meet, up to its return
CountScripts(q, day, src) ==
    { <<CountOk(q, day, src)>>,
      <<CountInt(q, day, src)>>,
      <<CountErr>>,
      <<Count429, CountOk(q, day, src)>>,
      <<Count429, Count429, CountErr>>,
      <<Count429, Count429, Count429>> }

\* the two a whole-run exploration draws from: one retried, one fatal
RunExcMessages ==
    { "429 Client Error: Too Many Requests", "500 Server Error" }

\* str(e) of the exceptions client.story_list raises
ExcMessages ==
    { "429 Client Error: Too Many Requests",
      "HTTPSConnectionPool(host='search.mediacloud.org'): Max retries exceeded",
      "Read Timeout",
      "Expecting value: line 1 column 1 (char 0)",
      "Unterminated string starting at: line 1 column 9 (char 8)",
      "500 Server Error" }

\* ------------------------------------------------------ text
\* JSON null / Python None: a value that is none of the texts
None == "\fNone"
NoneStr == None

\* d.get(k, default)
Get(d, k, default) == IF k \in DOMAIN d THEN d[k] ELSE default

\* not v, of a value that is a str or None
Falsy(v) == v = None \/ v = ""

\* A Python str is a TLA+ string; s[i:i+1] is CharAt(s, i + 1).
CharAt(s, i) == SubSeq(s, i, i)

\* s[:n]
Prefix(s, n) == SubSeq(s, 1, Min(n, Len(s)))

\* A string of this module holds the characters of the Basic Multilingual Plane
\* that its text can spell: those up to U+00FF and those whose code ends in a byte of
\* 80 to FF (no backquote). The tables below list, for these characters, what
\* Python 3.11 (Unicode 14.0.0) answers.

\* the characters of s
Chars(s) == {CharAt(s, i) : i \in 1..Len(s)}

\* the function of a text of pairs: the first character of each pair to the second
PairTable(pairs) ==
    [c \in {CharAt(pairs, 2 * i - 1) : i \in 1..(Len(pairs) \div 2)} |->
        CharAt(pairs,
               2 * (CHOOSE i \in 1..(Len(pairs) \div 2) : CharAt(pairs, 2 * i - 1) = c))]

\* the cased letters and their lower case, c followed by c.lower(); the letters A to Z
\* first
LOWER_PAIRS_0 == "AaBbCcDdEeFfGgHhIiJjKkLlMmNnOoPpQqRrSsTtUuVvWwXxYyZz"
LOWER_PAIRS_1 == "ÀàÁáÂâÃãÄäÅåÆæÇçÈèÉéÊêËëÌìÍíÎîÏïÐðÑñÒòÓóÔôÕõÖöØøÙùÚúÛûÜüÝýÞþƂƃƄƅƇƈƋƌƎǝƑƒƘƙƠơƢƣƤƥ"
LOWER_PAIRS_2 == "ƦʀƧƨƩʃƬƭƮʈƯưƱʊƲʋƳƴƵƶƷʒƸƹƼƽǄǆǅǆǇǉǈǉǊǌǋǌǍǎǏǐǑǒǓǔǕǖǗǘǙǚǛǜǞǟǠǡǢǣǤǥǦǧǨǩǪǫǬǭǮǯǱǳǲǳǴǵǶƕ"
LOWER_PAIRS_3 == "ǷƿǸǹǺǻǼǽǾǿΆάΈέΉήΊίΌόΎύΏώΑαΒβΓγΔδΕεΖζΗηΘθΙιΚκΛλΜμΝνΞξΟοΠπΡρΣσΤτΥυΦφΧχΨψΩωΪϊΫϋϏϗϘϙ"
LOWER_PAIRS_4 == "ϚϛϜϝϞϟϠϡϢϣϤϥϦϧϨϩϪϫϬϭϮϯϴθϷϸϹϲϺϻҀҁҊҋҌҍҎҏҐґҒғҔҕҖҗҘҙҚқҜҝҞҟҠҡҢңҤҥҦҧҨҩҪҫҬҭҮүҰұҲҳҴҵҶҷҸҹ"
LOWER_PAIRS_5 == "ҺһҼҽҾҿӀӏӁӂӃӄӅӆӇӈӉӊӋӌӍӎӐӑӒӓӔӕӖӗӘәӚӛӜӝӞӟӠӡӢӣӤӥӦӧӨөӪӫӬӭӮӯӰӱӲӳӴӵӶӷӸӹӺӻӼӽӾӿᎰꮀᎱꮁᎲꮂᎳꮃᎴꮄ"
LOWER_PAIRS_6 == "ᎵꮅᎶꮆᎷꮇᎸꮈᎹꮉᎺꮊᎻꮋᎼꮌᎽꮍᎾꮎᎿꮏᏀꮐᏁꮑᏂꮒᏃꮓᏄꮔᏅꮕᏆꮖᏇꮗᏈꮘᏉꮙᏊꮚᏋꮛᏌꮜᏍꮝᏎꮞᏏꮟᏐꮠᏑꮡᏒꮢᏓꮣᏔꮤᏕꮥᏖꮦᏗꮧᏘꮨᏙꮩᏚꮪᏛꮫᏜꮬ"
LOWER_PAIRS_7 == "ᏝꮭᏞꮮᏟꮯᏠꮰᏡꮱᏢꮲᏣꮳᏤꮴᏥꮵᏦꮶᏧꮷᏨꮸᏩꮹᏪꮺᏫꮻᏬꮼᏭꮽᏮꮾᏯꮿᏰᏸᏱᏹᏲᏺᏳᏻᏴᏼᏵᏽᲐაᲑბᲒგᲓდᲔეᲕვᲖზᲗთᲘიᲙკᲚლᲛმᲜნᲝოᲞპ"
LOWER_PAIRS_8 == "ᲟჟᲠრᲡსᲢტᲣუᲤფᲥქᲦღᲧყᲨშᲩჩᲪცᲫძᲬწᲭჭᲮხᲯჯᲰჰᲱჱᲲჲᲳჳᲴჴᲵჵᲶჶᲷჷᲸჸᲹჹᲺჺᲽჽᲾჾᲿჿẀẁẂẃẄẅẆẇẈẉẊẋẌẍẎẏẐẑ"
LOWER_PAIRS_9 == "ẒẓẔẕẞßẠạẢảẤấẦầẨẩẪẫẬậẮắẰằẲẳẴẵẶặẸẹẺẻẼẽẾếỀềỂểỄễỆệỈỉỊịỌọỎỏỐốỒồỔổỖỗỘộỚớỜờỞởỠỡỢợỤụỦủỨứ"
LOWER_PAIRS_10 == "ỪừỬửỮữỰựỲỳỴỵỶỷỸỹỺỻỼỽỾỿᾈᾀᾉᾁᾊᾂᾋᾃᾌᾄᾍᾅᾎᾆᾏᾇᾘᾐᾙᾑᾚᾒᾛᾓᾜᾔᾝᾕᾞᾖᾟᾗᾨᾠᾩᾡᾪᾢᾫᾣᾬᾤᾭᾥᾮᾦᾯᾧᾸᾰᾹᾱᾼᾳῌῃῘῐ"
LOWER_PAIRS_11 == "ῙῑῨῠῩῡῬῥῼῳↃↄⒶⓐⒷⓑⒸⓒⒹⓓⒺⓔⒻⓕⒼⓖⒽⓗⒾⓘⒿⓙⓀⓚⓁⓛⓂⓜⓃⓝⓄⓞⓅⓟⓆⓠⓇⓡⓈⓢⓉⓣⓊⓤⓋⓥⓌⓦⓍⓧⓎⓨⓏⓩⲀⲁⲂⲃⲄⲅⲆⲇⲈⲉⲊⲋⲌⲍⲎⲏ"
LOWER_PAIRS_12 == "ⲐⲑⲒⲓⲔⲕⲖⲗⲘⲙⲚⲛⲜⲝⲞⲟⲠⲡⲢⲣⲤⲥⲦⲧⲨⲩⲪⲫⲬⲭⲮⲯⲰⲱⲲⲳⲴⲵⲶⲷⲸⲹⲺⲻⲼⲽⲾⲿⳀⳁⳂⳃⳄⳅⳆⳇⳈⳉⳊⳋⳌⳍⳎⳏⳐⳑⳒⳓⳔⳕⳖⳗⳘⳙⳚⳛⳜⳝⳞⳟ"
LOWER_PAIRS_13 == "ⳠⳡⳢⳣⳫⳬⳭⳮⳲⳳꚀꚁꚂꚃꚄꚅꚆꚇꚈꚉꚊꚋꚌꚍꚎꚏꚐꚑꚒꚓꚔꚕꚖꚗꚘꚙꚚꚛꞀꞁꞂꞃꞄꞅꞆꞇꞋꞌꞐꞑꞒꞓꞖꞗꞘꞙꞚꞛꞜꞝꞞꞟꞠꞡꞢꞣꞤꞥꞦꞧꞨꞩꞰʞꞱʇꞲʝꞴꞵ"
LOWER_PAIRS_14 == "ꞶꞷꞸꞹꞺꞻꞼꞽꞾꞿꟀꟁꟂꟃꟄꞔꟅʂꟆᶎꟇꟈꟉꟊꟐꟑꟖꟗꟘꟙꟵꟶ"
LOWER_PAIRS ==
    LOWER_PAIRS_0 \o LOWER_PAIRS_1 \o LOWER_PAIRS_2 \o LOWER_PAIRS_3 \o LOWER_PAIRS_4
    \o LOWER_PAIRS_5 \o LOWER_PAIRS_6 \o LOWER_PAIRS_7 \o LOWER_PAIRS_8 \o LOWER_PAIRS_9
    \o LOWER_PAIRS_10 \o LOWER_PAIRS_11 \o LOWER_PAIRS_12 \o LOWER_PAIRS_13
    \o LOWER_PAIRS_14
\* the letters whose lower case no string of this module can hold
LOWER_OUTSIDE == "ƁƆƉƊƏƐƓƔƖƗƜƝƟϽϾϿႠႡႢႣႤႥႦႧႨႩႪႫႬႭႮႯႰႱႲႳႴႵႶႷႸႹႺႻႼႽႾႿჀჁჂჃჄჅჇჍᎠᎡᎢᎣᎤᎥᎦᎧᎨᎩᎪᎫᎬᎭᎮᎯᾺΆῈΈῊΉῚΊῪΎῸΌῺΏꞍꞪꞫꞬꞭꞮꞳ"
\* the cased characters that are not case-ignorable
CASED_1 == "ABCDEFGHIJKLMNOPQRSTUVWXYZabcdefghijklmnopqrstuvwxyzªµºÀÁÂÃÄÅÆÇÈÉÊËÌÍÎ"
CASED_2 == "ÏÐÑÒÓÔÕÖØÙÚÛÜÝÞßàáâãäåæçèéêëìíîïðñòóôõöøùúûüýþÿƀƁƂƃƄƅƆƇƈƉƊƋƌƍƎƏƐƑƒƓƔƕƖ"
CASED_3 == "ƗƘƙƚƛƜƝƞƟƠơƢƣƤƥƦƧƨƩƪƫƬƭƮƯưƱƲƳƴƵƶƷƸƹƺƼƽƾƿǄǅǆǇǈǉǊǋǌǍǎǏǐǑǒǓǔǕǖǗǘǙǚǛǜǝǞǟǠǡ"
CASED_4 == "ǢǣǤǥǦǧǨǩǪǫǬǭǮǯǰǱǲǳǴǵǶǷǸǹǺǻǼǽǾǿʀʁʂʃʄʅʆʇʈʉʊʋʌʍʎʏʐʑʒʓʕʖʗʘʙʚʛʜʝʞʟʠʡʢʣʤʥʦʧʨ"
CASED_5 == "ʩʪʫʬʭʮʯΆΈΉΊΌΎΏΐΑΒΓΔΕΖΗΘΙΚΛΜΝΞΟΠΡΣΤΥΦΧΨΩΪΫάέήίΰαβγδεζηθικλμνξοπρςστυφχψ"
CASED_6 == "ωϊϋόύώϏϐϑϒϓϔϕϖϗϘϙϚϛϜϝϞϟϠϡϢϣϤϥϦϧϨϩϪϫϬϭϮϯϰϱϲϳϴϵϷϸϹϺϻϼϽϾϿҀҁҊҋҌҍҎҏҐґҒғҔҕҖҗ"
CASED_7 == "ҘҙҚқҜҝҞҟҠҡҢңҤҥҦҧҨҩҪҫҬҭҮүҰұҲҳҴҵҶҷҸҹҺһҼҽҾҿӀӁӂӃӄӅӆӇӈӉӊӋӌӍӎӏӐӑӒӓӔӕӖӗӘәӚӛӜӝ"
CASED_8 == "ӞӟӠӡӢӣӤӥӦӧӨөӪӫӬӭӮӯӰӱӲӳӴӵӶӷӸӹӺӻӼӽӾӿրցւփքօֆևֈႠႡႢႣႤႥႦႧႨႩႪႫႬႭႮႯႰႱႲႳႴႵႶႷႸႹႺ"
CASED_9 == "ႻႼႽႾႿჀჁჂჃჄჅჇჍაბგდევზთიკლმნოპჟრსტუფქღყშჩცძწჭხჯჰჱჲჳჴჵჶჷჸჹჺჽჾჿᎠᎡᎢᎣᎤᎥᎦᎧᎨᎩᎪ"
CASED_10 == "ᎫᎬᎭᎮᎯᎰᎱᎲᎳᎴᎵᎶᎷᎸᎹᎺᎻᎼᎽᎾᎿᏀᏁᏂᏃᏄᏅᏆᏇᏈᏉᏊᏋᏌᏍᏎᏏᏐᏑᏒᏓᏔᏕᏖᏗᏘᏙᏚᏛᏜᏝᏞᏟᏠᏡᏢᏣᏤᏥᏦᏧᏨᏩᏪᏫᏬᏭᏮᏯᏰ"
CASED_11 == "ᏱᏲᏳᏴᏵᏸᏹᏺᏻᏼᏽᲀᲁᲂᲃᲄᲅᲆᲇᲈᲐᲑᲒᲓᲔᲕᲖᲗᲘᲙᲚᲛᲜᲝᲞᲟᲠᲡᲢᲣᲤᲥᲦᲧᲨᲩᲪᲫᲬᲭᲮᲯᲰᲱᲲᲳᲴᲵᲶᲷᲸᲹᲺᲽᲾᲿᶀᶁᶂᶃ"
CASED_12 == "ᶄᶅᶆᶇᶈᶉᶊᶋᶌᶍᶎᶏᶐᶑᶒᶓᶔᶕᶖᶗᶘᶙᶚẀẁẂẃẄẅẆẇẈẉẊẋẌẍẎẏẐẑẒẓẔẕẖẗẘẙẚẛẜẝẞẟẠạẢảẤấẦầẨẩẪẫẬậẮ"
CASED_13 == "ắẰằẲẳẴẵẶặẸẹẺẻẼẽẾếỀềỂểỄễỆệỈỉỊịỌọỎỏỐốỒồỔổỖỗỘộỚớỜờỞởỠỡỢợỤụỦủỨứỪừỬửỮữỰựỲỳỴ"
CASED_14 == "ỵỶỷỸỹỺỻỼỽỾỿᾀᾁᾂᾃᾄᾅᾆᾇᾈᾉᾊᾋᾌᾍᾎᾏᾐᾑᾒᾓᾔᾕᾖᾗᾘᾙᾚᾛᾜᾝᾞᾟᾠᾡᾢᾣᾤᾥᾦᾧᾨᾩᾪᾫᾬᾭᾮᾯᾰᾱᾲᾳᾴᾶᾷᾸᾹᾺΆ"
CASED_15 == "ᾼιῂῃῄῆῇῈΈῊΉῌῐῑῒΐῖῗῘῙῚΊῠῡῢΰῤῥῦῧῨῩῪΎῬῲῳῴῶῷῸΌῺΏῼↃↄⒶⒷⒸⒹⒺⒻⒼⒽⒾⒿⓀⓁⓂⓃⓄⓅⓆⓇⓈⓉⓊⓋⓌ"
CASED_16 == "ⓍⓎⓏⓐⓑⓒⓓⓔⓕⓖⓗⓘⓙⓚⓛⓜⓝⓞⓟⓠⓡⓢⓣⓤⓥⓦⓧⓨⓩⲀⲁⲂⲃⲄⲅⲆⲇⲈⲉⲊⲋⲌⲍⲎⲏⲐⲑⲒⲓⲔⲕⲖⲗⲘⲙⲚⲛⲜⲝⲞⲟⲠⲡⲢⲣⲤⲥⲦⲧⲨ"
CASED_17 == "ⲩⲪⲫⲬⲭⲮⲯⲰⲱⲲⲳⲴⲵⲶⲷⲸⲹⲺⲻⲼⲽⲾⲿⳀⳁⳂⳃⳄⳅⳆⳇⳈⳉⳊⳋⳌⳍⳎⳏⳐⳑⳒⳓⳔⳕⳖⳗⳘⳙⳚⳛⳜⳝⳞⳟⳠⳡⳢⳣⳤⳫⳬⳭⳮⳲⳳꚀꚁꚂꚃ"
CASED_18 == "ꚄꚅꚆꚇꚈꚉꚊꚋꚌꚍꚎꚏꚐꚑꚒꚓꚔꚕꚖꚗꚘꚙꚚꚛꞀꞁꞂꞃꞄꞅꞆꞇꞋꞌꞍꞎꞐꞑꞒꞓꞔꞕꞖꞗꞘꞙꞚꞛꞜꞝꞞꞟꞠꞡꞢꞣꞤꞥꞦꞧꞨꞩꞪꞫꞬꞭꞮꞯꞰꞱ"
CASED_19 == "ꞲꞳꞴꞵꞶꞷꞸꞹꞺꞻꞼꞽꞾꞿꟀꟁꟂꟃꟄꟅꟆꟇꟈꟉꟊꟐꟑꟓꟕꟖꟗꟘꟙꟵꟶꟺꮀꮁꮂꮃꮄꮅꮆꮇꮈꮉꮊꮋꮌꮍꮎꮏꮐꮑꮒꮓꮔꮕꮖꮗꮘꮙꮚꮛꮜꮝꮞꮟꮠꮡ"
CASED_20 == "ꮢꮣꮤꮥꮦꮧꮨꮩꮪꮫꮬꮭꮮꮯꮰꮱꮲꮳꮴꮵꮶꮷꮸꮹꮺꮻꮼꮽꮾꮿ"
CASED ==
    CASED_1 \o CASED_2 \o CASED_3 \o CASED_4 \o CASED_5 \o CASED_6 \o CASED_7 \o CASED_8
    \o CASED_9 \o CASED_10 \o CASED_11 \o CASED_12 \o CASED_13 \o CASED_14 \o CASED_15
    \o CASED_16 \o CASED_17 \o CASED_18 \o CASED_19 \o CASED_20
\* the case-ignorable characters
CASE_IGNORABLE_1 == "'.:^¨­¯´·¸ʰʱʲʳʴʵʶʷʸʹʺʻʼʽʾʿˀˁ˂˃˄˅ˆˇˈˉˊˋˌˍˎˏːˑ˒˓˔˕˖˗˘˙˚˛˜˝˞˟ˠˡˢˣˤ˥˦˧˨˩˪˫"
CASE_IGNORABLE_2 == "ˬ˭ˮ˯˰˱˲˳˴˵˶˷˸˹˺˻˼˽˾˿΄΅·҃҄҅҆҇҈҉ְֱֲֳִֵֶַָ֑֖֛֢֣֤֥֦֧֪֚֭֮֒֓֔֕֗֘֙֜֝֞֟֠֡֨֩֫֬֯"
CASE_IGNORABLE_3 == "ׇֹֺֻּֽֿׁׂׅׄ״ۖۗۘۙۚۛۜ۝ۣ۟۠ۡۢۤۥۦ۪ۭۧۨ۫۬ަާިީުޫެޭޮޯް߲߫߬߭߮߯߰߱߳ߴߵߺ߽࢈࢐࢑࢙࢚࢛࢘࢜࢝࢞࢟ࣉ"
CASE_IGNORABLE_4 == "࣏࣐࣑࣒࣓࣊࣋࣌࣍࣎ࣔࣕࣖࣗࣘࣙࣚࣛࣜࣝࣞࣟ࣠࣡࣢ࣰࣱࣲࣣࣦࣩ࣭࣮࣯ࣶࣹࣺࣤࣥࣧࣨ࣪࣫࣬ࣳࣴࣵࣷࣸࣻࣼࣽࣾࣿঁ়ুূৃৄ্ৢৣ৾ઁં઼ુૂૃ"
CASE_IGNORABLE_5 == "ૄૅેૈ્ૢૣૺૻૼ૽૾૿ஂீ்ಁ಼ಿೆೌ್ೢೣඁ්ිීුූັິີຶື຺ຸູົຼໆ່້໊໋໌ໍ྄ཱྀྀྂྃ྆྇ྍྎྏྐྑྒྒྷྔྕྖྗྙྚྛྜྜྷ"
CASE_IGNORABLE_6 == "ྞྟྠྡྡྷྣྤྥྦྦྷྨྩྪྫྫྷྭྮྯྰྱྲླྴྵྶྷྸྐྵྺྻྼ࿆ႂႅႆႍႝჼ឴឵ិីឹឺុូួំ៉៊់៌៍៎៏័៑្៓ៗ៝ᢅᢆᢩᪧ᪰᪱᪲᪳᪴"
CASE_IGNORABLE_7 == "᪵᪶᪷᪸᪹᪺᪽᪻᪼᪾ᪿᫀ᫃᫄᫊᫁᫂᫅᫆᫇᫈᫉᫋ᫌᫍᫎᮀᮁᮢᮣᮤᮥᮨᮩ᮫ᮬᮭ᯦ᯨᯩᯭᯯᯰᯱ᳔᳢᳣᳤᳥᳦᳧᳨᳕᳖᳗᳘᳙᳜᳝᳞᳟᳭᳐᳑᳒᳚᳛᳠᳴᳸"
CASE_IGNORABLE_8 == "᳹ᶛᶜᶝᶞᶟᶠᶡᶢᶣᶤᶥᶦᶧᶨᶩᶪᶫᶬᶭᶮᶯᶰᶱᶲᶳᶴᶵᶶᶷᶸᶹᶺᶻᶼᶽᶾᶿ᷐᷎᷂᷊᷏᷀᷁᷃᷄᷅᷆᷇᷈᷉᷋᷌᷑᷒ᷓᷔᷕᷖᷗᷘᷙᷚᷛᷜᷝᷞᷟ᷍"
CASE_IGNORABLE_9 == "᷺᷹᷽᷿᷷᷸ᷠᷡᷢᷣᷤᷥᷦᷧᷨᷩᷪᷫᷬᷭᷮᷯᷰᷱᷲᷳᷴ᷵᷻᷾᷶᷼᾽᾿῀῁῍῎῏῝῞῟῭΅`´῾ₐₑₒₓₔₕₖₗₘₙₚₛₜ⃒⃓⃘⃙⃐⃑⃔⃕⃖⃗"
CASE_IGNORABLE_10 == "⃚⃛⃜⃝⃞⃟⃠⃡⃢⃣⃤⃥⃦⃪⃫゙゚⃨⃬⃭⃮⃯⃧⃩⃰⳯⳰⳱ⷠⷡⷢⷣⷤⷥⷦⷧⷨⷩⷪⷫⷬⷭⷮⷯⷰⷱⷲⷳⷴⷵⷶⷷⷸⷹⷺⷻⷼⷽⷾⷿ゛゜ゝゞーヽヾꓸꓹꓺ"
CASE_IGNORABLE_11 == "ꓻꓼꓽꚜꚝꚞꚟ꛰꛱ꞈ꞉꞊ꟲꟳꟴꟸꟹ꣄ꣅ꣠꣡꣢꣣꣤꣥꣦꣧꣨꣩꣪꣫꣬꣭꣮꣯꣰꣱ꣿꦀꦁꦂ꦳ꦶꦷꦸꦹꦼꦽꧏꧥꧦꪴꪰꪲꪳꪷꪸꪾ꪿꫁ꫝꫬꫭꫳꫴ꫶ꯥꯨ꯭﮲"
CASE_IGNORABLE_12 == "﮳﮴﮵﮶﮷﮸﮹﮺﮻﮼﮽﮾﮿﯀﯁﯂﻿ﾞﾟ￣￹￺￻"
CASE_IGNORABLE ==
    CASE_IGNORABLE_1 \o CASE_IGNORABLE_2 \o CASE_IGNORABLE_3 \o CASE_IGNORABLE_4
    \o CASE_IGNORABLE_5 \o CASE_IGNORABLE_6 \o CASE_IGNORABLE_7 \o CASE_IGNORABLE_8
    \o CASE_IGNORABLE_9 \o CASE_IGNORABLE_10 \o CASE_IGNORABLE_11 \o CASE_IGNORABLE_12
\* the decimal digits, c followed by str(9 - int(c)); the digits 0 to 9 first
INVERT_PAIRS_0 == "09182736455463728190"
INVERT_PAIRS_1 == "۰9۱8۲7۳6۴5۵4۶3۷2۸1۹0߀9߁8߂7߃6߄5߅4߆3߇2߈1߉0০9১8২7৩6৪5৫4৬3৭2৮1৯0૦9૧8૨7૩6૪5૫4૬3૭2૮1૯0"
INVERT_PAIRS_2 == "௦9௧8௨7௩6௪5௫4௬3௭2௮1௯0೦9೧8೨7೩6೪5೫4೬3೭2೮1೯0෦9෧8෨7෩6෪5෫4෬3෭2෮1෯0໐9໑8໒7໓6໔5໕4໖3໗2໘1໙0"
INVERT_PAIRS_3 == "႐9႑8႒7႓6႔5႕4႖3႗2႘1႙0០9១8២7៣6៤5៥4៦3៧2៨1៩0᧐9᧑8᧒7᧓6᧔5᧕4᧖3᧗2᧘1᧙0᪀9᪁8᪂7᪃6᪄5᪅4᪆3᪇2᪈1᪉0"
INVERT_PAIRS_4 == "᪐9᪑8᪒7᪓6᪔5᪕4᪖3᪗2᪘1᪙0᮰9᮱8᮲7᮳6᮴5᮵4᮶3᮷2᮸1᮹0꣐9꣑8꣒7꣓6꣔5꣕4꣖3꣗2꣘1꣙0꧐9꧑8꧒7꧓6꧔5꧕4꧖3꧗2꧘1꧙0"
INVERT_PAIRS_5 == "꧰9꧱8꧲7꧳6꧴5꧵4꧶3꧷2꧸1꧹0꯰9꯱8꯲7꯳6꯴5꯵4꯶3꯷2꯸1꯹0"
INVERT_PAIRS ==
    INVERT_PAIRS_0 \o INVERT_PAIRS_1 \o INVERT_PAIRS_2 \o INVERT_PAIRS_3
    \o INVERT_PAIRS_4 \o INVERT_PAIRS_5
\* the characters with c.isdigit() that are no decimal digits
DIGIT_NOT_DECIMAL == "²³¹᧚₀₁₂₃₄₅₆₇₈₉⒈⒉⒊⒋⒌⒍⒎⒏⒐⓪⓵⓶⓷⓸⓹⓺⓻⓼⓽⓿➀➁➂➃➄➅➆➇➈➊➋➌➍➎➏➐➑➒"

\* the tables of the texts; of two values for a character the first counts
LowerTable == PairTable(LOWER_PAIRS)
LowerOutside == Chars(LOWER_OUTSIDE)
Cased == Chars(CASED)
CaseIgnorable == Chars(CASE_IGNORABLE)
InvertTable == PairTable(INVERT_PAIRS)
DigitNotDecimal == Chars(DIGIT_NOT_DECIMAL)

\* c.lower() of a character away from its neighbours. The lower case of a letter of
\* LOWER_OUTSIDE is a character no string of this module holds: for it LowerChar
\* has no value
LowerDomain == DOMAIN LowerTable \cup LowerOutside
LowerChar(c) == IF c \in LowerDomain THEN LowerTable[c] ELSE c

\* the capital sigma at position i ends a word: the nearest character before it that
\* is not case-ignorable is cased, and the nearest one after it is not
FinalSigma(s, i) ==
    /\ \E j \in 1..(i - 1) :
          /\ CharAt(s, j) \in Cased
          /\ \A k \in (j + 1)..(i - 1) : CharAt(s, k) \in CaseIgnorable
    /\ ~\E j \in (i + 1)..Len(s) :
          /\ CharAt(s, j) \in Cased
          /\ \A k \in (i + 1)..(j - 1) : CharAt(s, k) \in CaseIgnorable

\* the lower case of the character at position i of s
LowerAt(s, i) ==
    IF CharAt(s, i) = "Σ" THEN (IF FinalSigma(s, i) THEN "ς" ELSE "σ")
    ELSE LowerChar(CharAt(s, i))

RECURSIVE LowerRange(_, _, _)
\* s[lo..hi] in lower case (the range is halved at each level)
LowerRange(s, lo, hi) ==
    IF lo > hi THEN ""
    ELSE IF lo = hi THEN LowerAt(s, lo)
    ELSE LowerRange(s, lo, (lo + hi) \div 2) \o LowerRange(s, (lo + hi) \div 2 + 1, hi)

\* str.lower()
Lower(s) == LowerRange(s, 1, Len(s))

\* marker in text: marker is a substring of text
Contains(text, marker) ==
    \E i \in 1..(Len(text) - Len(marker) + 1) :
        SubSeq(text, i, i + Len(marker) - 1) = marker

\* ------------------------------------------------------ checkpoint tracker
\* hashlib.md5(query.encode()).hexdigest()[:12]
get_query_hash(q) ==
    CASE q = QUERY_A -> "a7c3af24bb5f"
      [] q = QUERY_B -> "4571451655dd"

\* checkpoint dict: completed as a set of <<source, day>>, expected_counts as a set
\* of <<<<day, source id>>, count>> entries
FreshCheckpoint(h) ==
    [completed |-> {}, expected_counts |-> {}, query_hash |-> h]

\* the checkpoint file: absent, unparsable, or a JSON object
NoFile == [state |-> "absent"]
CorruptFile == [state |-> "corrupt"]
JsonFile(data) == [state |-> "json", data |-> data]

\* variant: a stored checkpoint without fingerprint is discarded
load_checkpoint_reset_legacy(file, q) ==
    IF file.state = "json" /\ file.data.query_hash = get_query_hash(q)
    THEN file.data
    ELSE FreshCheckpoint(get_query_hash(q))

\* variant: the stored checkpoint is adopted whatever its fingerprint
load_checkpoint_no_reset(file, q) ==
    IF file.state = "json"
    THEN [file.data EXCEPT !.query_hash = get_query_hash(q)]
    ELSE FreshCheckpoint(get_query_hash(q))

load_checkpoint(file, q) ==
    LET current_hash == get_query_hash(q) IN
    IF file.state = "json"
    THEN LET data == file.data
             stored_hash == data.query_hash
         IN IF stored_hash # "" /\ stored_hash # current_hash
            THEN FreshCheckpoint(current_hash)
            ELSE IF stored_hash = ""
                 THEN [data EXCEPT !.query_hash = current_hash]
                 ELSE data
    ELSE FreshCheckpoint(current_hash)

save_checkpoint(data) == JsonFile(data)

is_complete(ckpt, day, source) == <<source, day>> \in ckpt.completed

mark_complete(ckpt, day, source) ==
    [ckpt EXCEPT !.completed = @ \cup {<<source, day>>}]

\* res.get("relevant") or res.get("count") or 0
DictCount(body) ==
    IF "relevant" \in DOMAIN body /\ body["relevant"] # 0 THEN body["relevant"]
    ELSE IF "count" \in DOMAIN body /\ body["count"] # 0 THEN body["count"]
    ELSE 0

RECURSIVE CountFrom(_, _)
CountFrom(script, attempt) ==
    IF attempt > COUNT_ATTEMPTS THEN -1
    ELSE LET res == script[attempt] IN
         IF res.kind = "dict" THEN DictCount(res.body)
         ELSE IF res.kind = "int" THEN res.value
         ELSE IF Contains(res.message, "429") THEN CountFrom(script, attempt + 1)
         ELSE -1

get_expected_count(script) == CountFrom(script, 1)

CacheKey(day, source_id) == <<day, source_id>>

IsCached(ckpt, key) == \E e \in ckpt.expected_counts : e[1] = key
Cached(ckpt, key) == (CHOOSE e \in ckpt.expected_counts : e[1] = key)[2]

\* get_expected_count_cached: the count returned ...
ExpectedCount(ckpt, script, day, source_id) ==
    IF IsCached(ckpt, CacheKey(day, source_id))
    THEN Cached(ckpt, CacheKey(day, source_id))
    ELSE get_expected_count(script)

\* ... and the checkpoint it leaves
CacheCount(ckpt, script, day, source_id) ==
    IF IsCached(ckpt, CacheKey(day, source_id)) THEN ckpt
    ELSE IF get_expected_count(script) >= 0
         THEN [ckpt EXCEPT !.expected_counts =
                  @ \cup {<<CacheKey(day, source_id), get_expected_count(script)>>}]
         ELSE ckpt

\* variants of the completion test: without the sign test, without the count test
ShouldMark_unsigned(expected, have) == have >= expected
ShouldMark_uncounted(expected, have) == expected >= 0

\* the completion test of pre-scan and of the fetch loop
ShouldMark(expected, have) == expected >= 0 /\ have >= expected

\* ------------------------------------------------------ record store
\* variant: the id set is not seeded from the output file
load_existing_ids_empty(file) == {}

\* obj.get(key) is truthy, for a flag that is absent, false or true
Flag(obj, key) == key \in DOMAIN obj /\ obj[key] = TRUE

\* obj.get("_manifest") or obj.get("_meta")
IsMetaObject(obj) == Flag(obj, "_manifest") \/ Flag(obj, "_meta")

load_existing_ids(file) ==
    {file[i].id : i \in {j \in 1..Len(file) :
                            ~IsMetaObject(file[j]) /\ "id" \in DOMAIN file[j]}}

\* pre-scan's counts[src][pub]: a line counts for the first outlet its media_url matches
FirstMatch(media_url) ==
    IF \E i \in 1..Len(Outlets) : Contains(media_url, Outlets[i])
    THEN Outlets[CHOOSE i \in 1..Len(Outlets) :
                    /\ Contains(media_url, Outlets[i])
                    /\ \A j \in 1..(i - 1) : ~Contains(media_url, Outlets[j])]
    ELSE ""

\* obj.get("publish_date", "")[:10] raises TypeError on a null publish_date, and the
\* try of the loop catches json.JSONDecodeError only
PrescanRaises(file) ==
    \E i \in 1..Len(file) :
        /\ ~IsMetaObject(file[i])
        /\ "publish_date" \in DOMAIN file[i]
        /\ file[i].publish_date = None

\* pub and media_url of a line, and "if pub and media_url"
Pub(obj) == Prefix(Get(obj, "publish_date", ""), 10)
Counted(obj) ==
    /\ ~IsMetaObject(obj)
    /\ Pub(obj) # ""
    /\ Get(obj, "media_url", "") \notin {"", None}

\* variant: the lines are counted for the day, whatever their source
PrescanCount_any_source(file, day, src) ==
    Cardinality({i \in 1..Len(file) :
                    /\ Counted(file[i])
                    /\ Pub(file[i]) = day_str(day)})

PrescanCount(file, day, src) ==
    Cardinality({i \in 1..Len(file) :
                    /\ Counted(file[i])
                    /\ Pub(file[i]) = day_str(day)
                    /\ FirstMatch(file[i].media_url) = src})

\* json.dumps(story) with the my_topic field added
OutputLine(story) ==
    [id |-> story.id, publish_date |-> story.publish_date,
     media_url |-> story.media_url, my_topic |-> Topic]

\* ------------------------------------------------------ paginated fetch
\* the except clause of iter_stories
IsTransient(m) ==
    LET err == Lower(m)
    IN \/ Contains(m, "429")
       \/ Contains(err, "connection")
       \/ Contains(err, "timeout")
       \/ Contains(err, "expecting value")

RECURSIVE Pow2(_)
Pow2(n) == IF n = 0 THEN 1 ELSE 2 * Pow2(n - 1)

\* variant: the wait is not capped
BackoffWait_uncapped(errors) == INITIAL_WAIT * Pow2(errors - 1)

BackoffWait(errors) == Min(INITIAL_WAIT * Pow2(errors - 1), MAX_WAIT)

\* the continuation token: the number of pages delivered, 0 for None
NoToken == 0

\* the token a retry after a transient failure sends
RetryToken(tok) == tok

\* client.story_list with a token: the next page and the token after it
PageAt(pages, tok) == IF tok + 1 <= Len(pages) THEN pages[tok + 1] ELSE << >>
TokenAfter(pages, tok) == IF tok + 1 < Len(pages) THEN tok + 1 ELSE NoToken

\* ------------------------------------------------------ iteration orders
\* pre-scan: start_date .. end_date, outlets in order
PrescanUnit(i) ==
    <<((i - 1) \div Len(Outlets)) + 1, Outlets[((i - 1) % Len(Outlets)) + 1]>>
\* fetch loop: newest day first, outlets in order
LoopUnit(i) ==
    <<NumDays - ((i - 1) \div Len(Outlets)), Outlets[((i - 1) % Len(Outlets)) + 1]>>

\* ====================================================== cleaning stage
\* mediacloud/clean.py.  A text (title, description, publish_date) is a string; a
\* JSON object is a function from the keys present to their values.

\* bound on the descriptive records the scrape stage has written
MaxArticles == 2
\* bound on datetime.now() as read by clean runs
MaxClock == 2

MAX_DESCRIPTION_WORDS == 50

OUTPUT_KEY_ORDER ==
    <<"media_url", "title", "description", "publish_date", "url", "my_topic">>

\* topic_config of the topic cleaned: name, filter_keywords, exclude_keywords
CleanTopic == "greenland-trump"
FILTER_KEYWORDS ==
    <<"trump", "greenland", "buy", "purchase", "acquisition", "united states",
      "deal", "agreement">>
EXCLUDE_KEYWORDS == << >>

\* topic_config.get("topic_keywords", []): the strict keyword lists a topic may define
TopicKeywordLists ==
    { << >>,
      <<"denmark", "Greenland">> }

\* args.no_write of the runs explored: runs that write
NoWriteFlags == {FALSE}

\* the directory raw/<topic>/<date>/ the scrape results are in
RAW_DAY == "2026-01-12"

\* ------------------------------------------------------ dict and text helpers
\* d.get(k) or ""
GetOrEmpty(d, k) ==
    IF k \in DOMAIN d /\ d[k] # None THEN d[k] ELSE ""

\* variant: on a shared key the first dict wins
MergeDicts_metadata_wins(a, b) ==
    [k \in DOMAIN a \cup DOMAIN b |-> IF k \in DOMAIN a THEN a[k] ELSE b[k]]

\* {**a, **b}
MergeDicts(a, b) ==
    [k \in DOMAIN a \cup DOMAIN b |-> IF k \in DOMAIN b THEN b[k] ELSE a[k]]

\* d with d[k] = v
SetKey(d, k, v) ==
    [x \in DOMAIN d \cup {k} |-> IF x = k THEN v ELSE d[x]]

\* the white space of str.split() and str.strip(), the characters with c.isspace():
\* U+0009 to U+000D, U+001C to U+001F, the space, U+0085, U+00A0 and U+1680 (the
\* other sixteen, U+2000 to U+3000, are characters no string of this module holds)
WHITESPACE ==
    {"\t", "\n", "", "\f", "\r", "", "", "", "", " ", "", " ", " "}
IsSpace(c) == c \in WHITESPACE

RECURSIVE SplitRange(_, _, _)
\* the maximal runs of non-space characters of text[lo..hi], in order; a run that
\* crosses the middle is put together from the two halves
SplitRange(text, lo, hi) ==
    IF lo > hi THEN << >>
    ELSE IF lo = hi
         THEN (IF IsSpace(CharAt(text, lo)) THEN << >> ELSE <<CharAt(text, lo)>>)
    ELSE LET mid == (lo + hi) \div 2
             left == SplitRange(text, lo, mid)
             right == SplitRange(text, mid + 1, hi)
         IN IF ~IsSpace(CharAt(text, mid)) /\ ~IsSpace(CharAt(text, mid + 1))
            THEN SubSeq(left, 1, Len(left) - 1)
                    \o <<left[Len(left)] \o right[1]>> \o Tail(right)
            ELSE left \o right

\* text.split()
split(text) == SplitRange(text, 1, Len(text))

RECURSIVE join(_, _)
\* sep.join(words)
join(sep, words) ==
    IF words = << >> THEN ""
    ELSE IF Len(words) = 1 THEN words[1]
    ELSE join(sep, SubSeq(words, 1, Len(words) \div 2)) \o sep
            \o join(sep, SubSeq(words, Len(words) \div 2 + 1, Len(words)))

truncate_description(text) ==
    IF text = None \/ text = "" THEN text
    ELSE LET words == split(text)
         IN IF Len(words) <= MAX_DESCRIPTION_WORDS THEN text
            ELSE join(" ", SubSeq(words, 1, MAX_DESCRIPTION_WORDS)) \o "..."

\* the positions from i on at which kw occurs in text
OccurrencesFrom(text, kw, i) ==
    {j \in i..(Len(text) - Len(kw) + 1) : SubSeq(text, j, j + Len(kw) - 1) = kw}

RECURSIVE CountOccurrences(_, _, _)
\* text.count(kw): non-overlapping occurrences, scanning from position i
CountOccurrences(text, kw, i) ==
    IF kw = "" THEN Len(text) + 2 - i
    ELSE IF OccurrencesFrom(text, kw, i) = {} THEN 0
    ELSE LET first == CHOOSE j \in OccurrencesFrom(text, kw, i) :
                         \A k \in OccurrencesFrom(text, kw, i) : j <= k
         IN 1 + CountOccurrences(text, kw, first + Len(kw))

\* any(p(kws[i]))
AnyKeyword(kws, text) ==
    \E i \in 1..Len(kws) : Contains(text, Lower(kws[i]))

\* (title + " " + description).lower()
TitleAndDescription(entry) ==
    Lower(GetOrEmpty(entry, "title") \o " " \o GetOrEmpty(entry, "description"))

\* variant: the exclude keywords are not consulted
is_topic_related_no_exclude(entry, filter_keywords, exclude_keywords) ==
    AnyKeyword(filter_keywords, TitleAndDescription(entry))

is_topic_related(entry, filter_keywords, exclude_keywords) ==
    LET text == TitleAndDescription(entry)
    IN IF ~AnyKeyword(filter_keywords, text) THEN FALSE
       ELSE IF exclude_keywords # << >> /\ AnyKeyword(exclude_keywords, text) THEN FALSE
       ELSE TRUE

\* src/clean.py: FILTER_KEYWORDS of the single-topic cleaner
CLEAN_FILTER_KEYWORDS ==
    <<"renée good", "renee good", "renée nicole good", "minneapolis", "minnesota",
      "ice", "shooting", "shot", "killed", "fatal", "death">>

\* src/clean.py: any(keyword in text for keyword in FILTER_KEYWORDS)
is_gaza_related(entry) ==
    LET text == TitleAndDescription(entry)
    IN \E i \in 1..Len(CLEAN_FILTER_KEYWORDS) : Contains(text, CLEAN_FILTER_KEYWORDS[i])

\* variant: an empty keyword list matches nothing
is_topic_relevant_no_passthrough(entry, keywords) ==
    \E i \in 1..Len(keywords) :
        \/ Contains(Lower(GetOrEmpty(entry, "title")), Lower(keywords[i]))
        \/ CountOccurrences(Lower(GetOrEmpty(entry, "description")),
                            Lower(keywords[i]), 1) >= 2

is_topic_relevant(entry, keywords) ==
    IF keywords = << >> THEN TRUE
    ELSE LET title == Lower(GetOrEmpty(entry, "title"))
             description == Lower(GetOrEmpty(entry, "description"))
         IN \E i \in 1..Len(keywords) :
               LET kw == Lower(keywords[i])
               IN \/ Contains(title, kw)
                  \/ CountOccurrences(description, kw, 1) >= 2

\* ------------------------------------------------------ getnews/clean.py filters
EXCLUDED_FROM_CLEAN == {"usatoday.com"}

\* loose match: a keyword in title or summary
matches_keywords(story, keywords) ==
    LET title == Lower(GetOrEmpty(story, "title"))
        summary == Lower(GetOrEmpty(story, "summary"))
        text == title \o " " \o summary
    IN \E i \in 1..Len(keywords) : Contains(text, Lower(keywords[i]))

\* strict match: a keyword in the title, or twice in summary (or description)
matches_strict_keywords(story, keywords) ==
    LET title == Lower(GetOrEmpty(story, "title"))
        summary == Lower(IF GetOrEmpty(story, "summary") # ""
                         THEN story["summary"]
                         ELSE GetOrEmpty(story, "description"))
    IN \E i \in 1..Len(keywords) :
          \/ Contains(title, Lower(keywords[i]))
          \/ CountOccurrences(summary, Lower(keywords[i]), 1) >= 2

\* topic_raw and topic_clean of main, for the keywords of a topic
topic_raw(all_raw, keywords) ==
    SelectSeq(all_raw, LAMBDA r : matches_keywords(r, keywords))
topic_clean(all_raw, keywords) ==
    SelectSeq(topic_raw(all_raw, keywords),
              LAMBDA r : /\ matches_strict_keywords(r, keywords)
                         /\ Get(r, "media_url", "") \notin EXCLUDED_FROM_CLEAN)

\* ------------------------------------------------------ sort key
\* ord(c) of the characters that occur in dates
Ord(c) ==
    CASE c = " " -> 32
      [] c = "-" -> 45
      [] c = "0" -> 48 [] c = "1" -> 49 [] c = "2" -> 50 [] c = "3" -> 51
      [] c = "4" -> 52 [] c = "5" -> 53 [] c = "6" -> 54 [] c = "7" -> 55
      [] c = "8" -> 56 [] c = "9" -> 57
      [] c = ":" -> 58
      [] c = "T" -> 84
      [] c = "Z" -> 90

\* int(c) raises ValueError: c.isdigit() holds of the superscript, subscript and
\* circled digits too, and int() reads decimal digits only
ValueError == "\fValueError"
IsDigit(c) == c \in DOMAIN InvertTable \cup DigitNotDecimal

\* variant: digits are kept as they are
InvertChar_identity(c) == c

\* str(9 - int(c)) if c.isdigit() else c
InvertChar(c) ==
    IF c \in DigitNotDecimal THEN ValueError
    ELSE IF c \in DOMAIN InvertTable THEN InvertTable[c]
    ELSE c

\* the generator of inverted_date raises ValueError
InvertRaises(date) == \E i \in 1..Len(date) : CharAt(date, i) \in DigitNotDecimal

RECURSIVE InvertJoin(_)
InvertJoin(date) ==
    IF date = "" THEN ""
    ELSE InvertChar(CharAt(date, 1)) \o InvertJoin(SubSeq(date, 2, Len(date)))

\* "".join(... for c in date)
InvertDigits(date) == IF InvertRaises(date) THEN ValueError ELSE InvertJoin(date)

\* a < b for Python strings
StrLess(a, b) ==
    \E i \in 1..Len(b) :
        /\ \A j \in 1..(i - 1) : j <= Len(a) /\ CharAt(a, j) = CharAt(b, j)
        /\ \/ i = Len(a) + 1
           \/ i <= Len(a) /\ Ord(CharAt(a, i)) < Ord(CharAt(b, i))

\* "0000-00-00"
SENTINEL_DATE == "0000-00-00"

\* hashlib.md5(url.encode()).hexdigest(), by its first four hex digits as a number
\* (hex digests compare as strings the way their leading digits compare as numbers)
UrlHash(url) ==
    CASE url = "" -> 54301
      [] url = "https://x/1" -> 11114
      [] url = "https://x/2" -> 8801
      [] url = "https://x/3" -> 43577
      [] url = "https://x/4" -> 45097
      [] url = "https://x/5" -> 31692
      [] url = "https://x/6" -> 40588
      [] url = "https://x/7" -> 32244
      [] url = "https://x/8" -> 52797
      [] url = "https://x/9" -> 49689
      [] url = "https://x/10" -> 37953
      [] url = "https://x/11" -> 29345

\* entry_sort_key raises: TypeError, a publish_date of None is not iterable;
\* ValueError, int() of a character of the date; AttributeError, None.encode() of
\* a url of None
SortKeyRaises(entry) ==
    \/ Get(entry, "publish_date", SENTINEL_DATE) = None
    \/ InvertRaises(Get(entry, "publish_date", SENTINEL_DATE))
    \/ Get(entry, "url", "") = None

\* variant: the url hash is left out of the key
entry_sort_key_date_only(entry) ==
    <<InvertDigits(Get(entry, "publish_date", SENTINEL_DATE)), 0>>

entry_sort_key(entry) ==
    <<InvertDigits(Get(entry, "publish_date", SENTINEL_DATE)),
      UrlHash(Get(entry, "url", ""))>>

\* k1 <= k2 for the key tuples
KeyLeq(k1, k2) ==
    \/ StrLess(k1[1], k2[1])
    \/ k1[1] = k2[1] /\ k1[2] <= k2[2]

\* the place list.sort(key=entry_sort_key) gives entries[i]: behind the entries of a
\* smaller key and behind the earlier entries of an equal key (the sort is stable)
Place(entries, i) ==
    1 + Cardinality({j \in 1..Len(entries) :
                        IF j < i
                        THEN KeyLeq(entry_sort_key(entries[j]), entry_sort_key(entries[i]))
                        ELSE ~KeyLeq(entry_sort_key(entries[i]),
                                     entry_sort_key(entries[j]))})

\* xs[i] moved to the place of entries[i], for every i
SortedWith(entries, xs) ==
    [place \in 1..Len(entries) |->
        xs[CHOOSE i \in 1..Len(entries) : Place(entries, i) = place]]

\* list.sort(key=entry_sort_key)
SortEntries(entries) == SortedWith(entries, entries)

\* ------------------------------------------------------ raw streams
DATE_JAN09 == "2026-01-09"
DATE_JAN10 == "2026-01-10"
\* a publish_date with a time part, as the metadata of some sources carries it
DATE_JAN10_T08 == DATE_JAN10 \o "T08"

\* the keys of a story in the order the API delivers them: the code passes the order
\* on as it gets it; the order taken here is that of the raw.jsonl schema
STORY_KEYS ==
    <<"id", "indexed_date", "language", "media_name", "media_url", "publish_date",
      "title", "url">>

\* story["my_topic"] = topic: the keys of the story afterwards, a new key last
urls_line_keys(story_keys) ==
    IF \E i \in 1..Len(story_keys) : story_keys[i] = "my_topic" THEN story_keys
    ELSE Append(story_keys, "my_topic")

\* a record of urls.jsonl as the fetch stage writes it
UrlRecord(url, title, date) ==
    [id |-> "story " \o url, indexed_date |-> "2026-01-11", language |-> "en",
     media_name |-> "cnn.com", media_url |-> "cnn.com", publish_date |-> date,
     title |-> title, url |-> url, my_topic |-> CleanTopic]

\* d without key k
DropKey(d, k) == [x \in DOMAIN d \ {k} |-> d[x]]

\* urls.jsonl of the raw directory (metadata stream): it has no entry for
\* https://x/5, and entries for urls not scraped yet; x/8 to x/11 are records with
\* another language tag, without one, with a null one and with the tag in capitals
urls_entries ==
    << UrlRecord("https://x/1", "Daily roundup", DATE_JAN10),
       UrlRecord("https://x/2", "World", DATE_JAN10),
       UrlRecord("https://x/3", "Roundup", DATE_JAN09),
       UrlRecord("https://x/4", "Greenland purchase", None),
       DropKey(UrlRecord("https://x/6", "Greenland talks", None), "publish_date"),
       UrlRecord("https://x/7", "Greenland deal", DATE_JAN10_T08),
       SetKey(UrlRecord("https://x/8", "Wetter", DATE_JAN10), "language", "de"),
       DropKey(UrlRecord("https://x/9", "Greenland deal", DATE_JAN10), "language"),
       SetKey(UrlRecord("https://x/10", "Greenland deal", DATE_JAN10),
              "language", NoneStr),
       SetKey(UrlRecord("https://x/11", "Greenland deal", DATE_JAN10),
              "language", "EN") >>

\* _now_iso() of the scrape
SCRAPED_AT == "2026-01-12T09:00:00+00:00"

\* a record of articles.jsonl as scrape_article returns it for the topic cleaned: of
\* a fetched page, or of a failed request (title and description are then None).
\* The status is its JSON text
Article(url, success, title, description) ==
    [url |-> url,
     final_url |-> IF success THEN url ELSE None,
     http_status |-> IF success THEN "200" ELSE None,
     description |-> description,
     title |-> title,
     success |-> success,
     error |-> IF success THEN None ELSE "HTTP 404",
     scraped_at |-> SCRAPED_AT,
     my_topic |-> CleanTopic]

RECURSIVE Filler(_)
\* n filler words, each followed by a blank
Filler(n) ==
    IF n = 0 THEN ""
    ELSE IF n = 1 THEN "w "
    ELSE Filler(n \div 2) \o Filler(n - n \div 2)

\* a description of 52 words with the keyword as its first and its last word
LONG_DESCRIPTION == "Greenland " \o Filler(MAX_DESCRIPTION_WORDS) \o "Greenland"

\* records the scrape stage may append to articles.jsonl (descriptive stream)
ArticleCatalogue ==
    { Article("https://x/1", TRUE, "Daily roundup",
              "Greenland Greenland trade deal advances"),
      Article("https://x/2", TRUE, "World news",
              "Greenland trade deal advances"),
      Article("https://x/3", TRUE, "Roundup", LONG_DESCRIPTION),
      Article("https://x/4", TRUE, "Greenland purchase", "Trump offer"),
      Article("https://x/5", FALSE, None, None),
      Article("https://x/5", TRUE, "Greenland deal", "Trump offer") }

\* records the scrape stage may append when the streams hold faulty records: a
\* record in German that matches no keyword, records whose metadata has no language
\* tag, a null tag, the tag EN, and successful records without a url and with a url
\* of null
FaultCatalogue ==
    { Article("https://x/8", TRUE, "Wetter", "Regen"),
      Article("https://x/9", TRUE, "Greenland deal", "Trump offer"),
      Article("https://x/10", TRUE, "Greenland deal", "Trump offer"),
      Article("https://x/11", TRUE, "Greenland deal", "Trump offer"),
      DropKey(Article("", TRUE, "Greenland deal", "Trump offer"), "url"),
      Article(None, TRUE, "Greenland deal", "Trump offer") }

\* records of every outcome of the article loop: the catalogue's, a record in German,
\* a successful record without a url, and one in English that names no keyword
OutcomeCatalogue ==
    ArticleCatalogue
        \cup { Article("https://x/8", TRUE, "Wetter", "Regen"),
               DropKey(Article("", TRUE, "Greenland deal", "Trump offer"),
                       "url"),
               Article("https://x/2", TRUE, "World", "sports") }

\* ------------------------------------------------------ JSONL files
\* a file: absent, or its lines; a line is a JSON object as its <<key, value>> pairs
\* in the order written
AbsentFile == [exists |-> FALSE, lines |-> << >>]
FileOf(lines) == [exists |-> TRUE, lines |-> lines]

KeySet(keys) == {keys[i] : i \in 1..Len(keys)}

RECURSIVE PairsInOrder(_, _, _)
\* the pairs of d for the keys of keys[i..], in that order
PairsInOrder(d, keys, i) ==
    IF i > Len(keys) THEN << >>
    ELSE IF keys[i] \in DOMAIN d
         THEN <<<<keys[i], d[keys[i]]>>>> \o PairsInOrder(d, keys, i + 1)
         ELSE PairsInOrder(d, keys, i + 1)

\* {k: combined[k] for k in OUTPUT_KEY_ORDER if k in combined}
CleanedEntry(combined) ==
    [k \in KeySet(OUTPUT_KEY_ORDER) \cap DOMAIN combined |-> combined[k]]

\* the keys of d, in the order given
KeysOf(d, order) == SelectSeq(order, LAMBDA k : k \in DOMAIN d)

\* list(cleaned_entry): the dict comprehension goes through OUTPUT_KEY_ORDER
cleaned_keys(cleaned_entry) == KeysOf(cleaned_entry, OUTPUT_KEY_ORDER)

\* json.dumps(entry) of a dict whose keys are, in the order of the dict, keys
json_dumps(entry, keys) == PairsInOrder(entry, keys, 1)

\* json.loads(line): of a key written twice the last value counts
json_loads(line) ==
    [k \in {line[i][1] : i \in 1..Len(line)} |->
        line[CHOOSE i \in 1..Len(line) :
                /\ line[i][1] = k
                /\ \A j \in (i + 1)..Len(line) : line[j][1] # k][2]]

RECURSIVE KeysFrom(_, _)
\* the keys of line[i..] that no earlier pair of the line has
KeysFrom(line, i) ==
    IF i > Len(line) THEN << >>
    ELSE IF \E j \in 1..(i - 1) : line[j][1] = line[i][1]
         THEN KeysFrom(line, i + 1)
         ELSE <<line[i][1]>> \o KeysFrom(line, i + 1)

\* list(json.loads(line)): a key is at the place where the line has it first
loaded_keys(line) == KeysFrom(line, 1)

\* entry.get("_meta") or entry.get("_manifest"), of the parsed line
IsMetaLine(line) == IsMetaObject(json_loads(line))

RECURSIVE LoadLines(_, _)
LoadLines(lines, i) ==
    IF i > Len(lines) THEN << >>
    ELSE IF IsMetaLine(lines[i]) THEN LoadLines(lines, i + 1)
    ELSE <<json_loads(lines[i])>> \o LoadLines(lines, i + 1)

load_jsonl(file) == IF file.exists THEN LoadLines(file.lines, 1) ELSE << >>

\* the keys of the entries of load_jsonl(file), entry by entry, in the order of the
\* dicts
load_jsonl_keys(file) ==
    IF file.exists
    THEN LET entry_lines == SelectSeq(file.lines, LAMBDA line : ~IsMetaLine(line))
         IN [i \in 1..Len(entry_lines) |-> loaded_keys(entry_lines[i])]
    ELSE << >>

\* json.loads of every line of a file
ParsedLines(file) ==
    IF file.exists THEN [i \in 1..Len(file.lines) |-> json_loads(file.lines[i])]
    ELSE << >>

\* src/clean.py load_jsonl: every line is an entry
clean_load_jsonl(file) == ParsedLines(file)

\* getnews/clean.py load_jsonl: the objects without a truthy _meta
getnews_load_jsonl(file) ==
    SelectSeq(ParsedLines(file), LAMBDA obj : ~Flag(obj, "_meta"))

\* manifest.py load_records_skip_manifest
load_records_skip_manifest(file) ==
    SelectSeq(ParsedLines(file),
              LAMBDA obj : ~(Flag(obj, "_manifest") \/ Flag(obj, "_meta")))

\* how a call ends: with an exception, or with a value
Raised(exc) == [raised |-> TRUE, exc |-> exc]
Value(v) == [raised |-> FALSE, value |-> v]

\* scrape-articles.py _normalize_loaded_obj of a JSON object; the urls field of the
\* objects explored is a list
normalize_loaded_obj(obj) ==
    IF "urls" \in DOMAIN obj
    THEN [i \in 1..Len(obj["urls"]) |-> [url |-> obj["urls"][i]]]
    ELSE <<obj>>

RECURSIVE LoadRecordsFrom(_, _)
\* the loop of load_records over the parsed lines objs[i..]
LoadRecordsFrom(objs, i) ==
    IF i > Len(objs) THEN << >>
    ELSE IF IsMetaObject(objs[i]) THEN LoadRecordsFrom(objs, i + 1)
    ELSE normalize_loaded_obj(objs[i]) \o LoadRecordsFrom(objs, i + 1)

\* scrape-articles.py load_records(path): jsonl says whether the suffix of path is
\* .jsonl or .ndjson; any other path is read as one JSON document, which a file of
\* no line or of several lines is not
load_records(file, jsonl) ==
    IF ~file.exists THEN Raised("FileNotFoundError")
    ELSE IF jsonl THEN Value(LoadRecordsFrom(ParsedLines(file), 1))
    ELSE IF Len(file.lines) # 1 THEN Raised("JSONDecodeError")
    ELSE Value(normalize_loaded_obj(json_loads(file.lines[1])))

\* json.dumps(create_meta_header(topic, record_count, dates_collected))
create_meta_header(topic, record_count, dates_collected, now) ==
    << <<"_meta", TRUE>>, <<"topic", topic>>, <<"record_count", record_count>>,
       <<"dates_collected", dates_collected>>,
       <<"date_range", <<dates_collected[1], dates_collected[Len(dates_collected)]>> >>,
       <<"last_updated", now>> >>

\* meta line, then one line per entry; keys[i] are the keys of entries[i] in the
\* order of the dict
WriteJsonl(meta, entries, keys) ==
    FileOf(<<meta>> \o [i \in 1..Len(entries) |-> json_dumps(entries[i], keys[i])])

\* build_url_index: the last entry of a url wins
HasUrlEntry(url) == \E i \in 1..Len(urls_entries) : urls_entries[i].url = url
urls_by_url(url) ==
    urls_entries[CHOOSE i \in 1..Len(urls_entries) :
                    /\ urls_entries[i].url = url
                    /\ \A j \in (i + 1)..Len(urls_entries) : urls_entries[j].url # url]

\* variant: the urls of the existing output are not collected
UrlsOf_none(entries) == {}

\* {entry["url"] for entry in existing_entries if "url" in entry}
UrlsOf(entries) ==
    {entries[i].url : i \in {j \in 1..Len(entries) : "url" \in DOMAIN entries[j]}}

\* ------------------------------------------------------ main: the article loop
\* variant: the entries of the output file count as skipped before the loop
LoopStart_skipped(existing_entries) ==
    [new_entries |-> << >>,
     existing_urls |-> UrlsOf(existing_entries),
     missing_urls |-> << >>,
     problems |-> 0,
     raised |-> FALSE,
     count_added |-> 0,
     count_skipped_not_success |-> 0,
     count_skipped_already_exists |-> Len(existing_entries),
     count_skipped_non_english |-> 0,
     count_skipped_not_topic |-> 0,
     count_skipped_not_relevant |-> 0]

\* the stats and lists of main before the loop
LoopStart(existing_entries) ==
    [new_entries |-> << >>,
     existing_urls |-> UrlsOf(existing_entries),
     missing_urls |-> << >>,
     problems |-> 0,
     raised |-> FALSE,
     count_added |-> 0,
     count_skipped_not_success |-> 0,
     count_skipped_already_exists |-> 0,
     count_skipped_non_english |-> 0,
     count_skipped_not_topic |-> 0,
     count_skipped_not_relevant |-> 0]

\* variant: urls added in this run are not remembered
AddUrl_forget(existing_urls, url) == existing_urls

\* existing_urls.add(url)
AddUrl(existing_urls, url) == existing_urls \cup {url}

\* combined -> cleaned_entry
BuildCleaned(urls_data, entry) ==
    LET combined == SetKey(MergeDicts(urls_data, entry), "my_topic", CleanTopic)
        truncated ==
            IF GetOrEmpty(combined, "description") # ""
            THEN SetKey(combined, "description",
                        truncate_description(combined["description"]))
            ELSE combined
    IN CleanedEntry(truncated)

\* the scrape records of the streams explored, and those of them that have metadata
StreamRecords == ArticleCatalogue \cup FaultCatalogue \cup OutcomeCatalogue
EnrichedRecords == {e \in StreamRecords : "url" \in DOMAIN e /\ HasUrlEntry(e.url)}

\* is_topic_related, cleaned_entry and is_topic_relevant of the loop. Their values
\* for the records of the streams are tabulated (a constant function is evaluated
\* once, where the operators work through the texts character by character for
\* every run); any other record is computed on the spot
RelatedTable ==
    [e \in StreamRecords |-> is_topic_related(e, FILTER_KEYWORDS, EXCLUDE_KEYWORDS)]
CleanedTable ==
    [e \in EnrichedRecords |-> BuildCleaned(urls_by_url(e.url), e)]
RelevantTable ==
    [c \in {CleanedTable[e] : e \in EnrichedRecords}, kws \in TopicKeywordLists |->
        is_topic_relevant(c, kws)]

topic_related(entry) ==
    IF entry \in StreamRecords THEN RelatedTable[entry]
    ELSE is_topic_related(entry, FILTER_KEYWORDS, EXCLUDE_KEYWORDS)
cleaned(entry) ==
    IF entry \in EnrichedRecords THEN CleanedTable[entry]
    ELSE BuildCleaned(urls_by_url(entry.url), entry)
topic_relevant(cleaned_entry, keywords) ==
    IF <<cleaned_entry, keywords>> \in DOMAIN RelevantTable
    THEN RelevantTable[cleaned_entry, keywords]
    ELSE is_topic_relevant(cleaned_entry, keywords)

\* one pass of the for loop; None.lower() raises AttributeError and ends the loop
ProcessEntry(acc, entry, keywords) ==
    LET url == Get(entry, "url", None)
    IN IF acc.raised
       THEN acc
       ELSE IF ~Get(entry, "success", FALSE)
       THEN [acc EXCEPT !.count_skipped_not_success = @ + 1]
       ELSE IF Falsy(url)
       THEN [acc EXCEPT !.problems = @ + 1]
       ELSE IF url \in acc.existing_urls
       THEN [acc EXCEPT !.count_skipped_already_exists = @ + 1]
       ELSE IF ~HasUrlEntry(url)
       THEN [acc EXCEPT !.missing_urls = Append(@, url)]
       ELSE IF Get(urls_by_url(url), "language", "") = NoneStr
       THEN [acc EXCEPT !.raised = TRUE]
       ELSE IF Lower(Get(urls_by_url(url), "language", "")) # "en"
       THEN [acc EXCEPT !.count_skipped_non_english = @ + 1]
       ELSE IF ~topic_related(entry)
       THEN [acc EXCEPT !.count_skipped_not_topic = @ + 1]
       ELSE LET cleaned_entry == cleaned(entry)
            IN IF keywords # << >> /\ ~topic_relevant(cleaned_entry, keywords)
               THEN [acc EXCEPT !.count_skipped_not_relevant = @ + 1]
               ELSE [acc EXCEPT !.new_entries = Append(@, cleaned_entry),
                                !.existing_urls = AddUrl(@, url),
                                !.count_added = @ + 1]

RECURSIVE ProcessArticles(_, _, _, _)
\* for entry in articles_entries, the first n of them
ProcessArticles(articles, n, existing_entries, keywords) ==
    IF n = 0 THEN LoopStart(existing_entries)
    ELSE ProcessEntry(ProcessArticles(articles, n - 1, existing_entries, keywords),
                      articles[n], keywords)

\* existing_entries = load_jsonl(output_file) if args.append else []
ExistingEntries(append, file) == IF append THEN load_jsonl(file) ELSE << >>
\* the keys of these entries
ExistingKeys(append, file) == IF append THEN load_jsonl_keys(file) ELSE << >>

\* all_entries.sort(key=entry_sort_key) raises
SortRaises(entries) == \E i \in 1..Len(entries) : SortKeyRaises(entries[i])

\* combine_raw_files: every article with a url, over its metadata when there is one
CombinedRecord(article) ==
    IF HasUrlEntry(article.url) THEN MergeDicts(urls_by_url(article.url), article)
    ELSE article

\* a run of main() that did not happen yet
NoCleanRun ==
    [ran |-> FALSE, append |-> FALSE, no_write |-> FALSE,
     articles_entries |-> << >>,
     count_articles |-> 0, exit_code |-> 0, raised |-> FALSE, wrote |-> FALSE,
     summary |-> FALSE, config_fault |-> FALSE,
     repeat |-> FALSE, loop |-> LoopStart(<< >>)]

\* ------------------------------------------------------ state
VARIABLES
    query,              \* the configured query of the current (or last) run
    ckpt_file,          \* .fetch-checkpoint-<topic>.json
    out_file,           \* raw/<topic>/<today>/urls.jsonl, a sequence of lines
    raw_dirs,           \* urls.jsonl of the date directories of earlier days, oldest first
    pc,                 \* where main() is
    checkpoint,         \* the in-memory checkpoint dict
    existing_ids,       \* the in-memory id set
    scan,               \* pre-scan position
    idx,                \* fetch loop position
    pagination_token,   \* iter_stories
    page,               \* stories of the current page not yet yielded
    consecutive_errors, \* iter_stories
    wait,               \* the last backoff sleep
    day_new, day_skipped,
    yielded,            \* history: stories iter_stories has yielded for this unit
    last_exc,           \* history: message of the exception the last story_list call raised
    last_lookup,        \* history: the expected-count lookup made by the last step
    queries_run,        \* history: the queries runs were started with
    persisted,          \* history: the units save_checkpoint wrote as complete, the
                        \* query unchanged since; kept in SpecResume, NoHistory elsewhere
    topic_keywords,     \* the strict keyword list of the topic's configuration
    raw_articles,       \* raw/<topic>/<date>/articles.jsonl, its records
    clean_file,         \* clean/articles-<topic>.jsonl
    tmp_file,           \* /tmp/newsdata-<topic>.jsonl
    combined_file,      \* the combined raw file
    clean_clock,        \* datetime.now(), one tick per clean run
    last_clean,         \* history: the last clean run, its arguments, stats and exit
    call,               \* a function of the pipeline called on its own: name and arguments
    ret                 \* what the call returned

fetch_vars == <<query, ckpt_file, out_file, raw_dirs, pc, checkpoint, existing_ids, scan, idx,
                pagination_token, page, consecutive_errors, wait, day_new, day_skipped,
                yielded, last_exc, last_lookup, queries_run, persisted>>

clean_vars == <<topic_keywords, raw_articles, clean_file, tmp_file, combined_file,
               clean_clock, last_clean>>

call_vars == <<call, ret>>

vars == <<fetch_vars, clean_vars, call_vars>>

\* no function is called on its own
NoCall == [fn |-> "none"]
NoRet == [made |-> FALSE]
Returned(v) == [made |-> TRUE, value |-> v]

NoLookup == [made |-> FALSE, unit |-> <<0, "">>, value |-> 0, api |-> FALSE]
Lookup(u, v, api) == [made |-> TRUE, unit |-> u, value |-> v, api |-> api]

NoExc == ""

Running == pc \notin {"idle", "done"}

\* the fetch stage before the first run: no checkpoint, no output file
InitFetchState ==
    /\ query = QUERY_A
    /\ ckpt_file = NoFile
    /\ out_file = << >>
    /\ raw_dirs = << >>
    /\ pc = "idle"
    /\ checkpoint = FreshCheckpoint("")
    /\ existing_ids = {}
    /\ scan = 0
    /\ idx = 0
    /\ pagination_token = NoToken
    /\ page = << >>
    /\ consecutive_errors = 0
    /\ wait = 0
    /\ day_new = 0
    /\ day_skipped = 0
    /\ yielded = << >>
    /\ last_exc = NoExc
    /\ last_lookup = NoLookup
    /\ queries_run = {}

\* the value of persisted where no history is kept
NoHistory == {<<"", 0>>}
\* save_checkpoint has written these units as complete
Saved(completed) == IF persisted = NoHistory THEN persisted ELSE persisted \cup completed

\* the same, no history kept
InitFetch ==
    /\ InitFetchState
    /\ persisted = NoHistory

InitNoCall ==
    /\ call = NoCall
    /\ ret = NoRet

\* the clean stage before the first run: nothing scraped, no output files
InitCleanFiles ==
    /\ raw_articles = << >>
    /\ clean_file = AbsentFile
    /\ tmp_file = AbsentFile
    /\ combined_file = AbsentFile
    /\ clean_clock = 0
    /\ last_clean = NoCleanRun

Init ==
    /\ InitFetch
    /\ InitCleanFiles
    /\ InitNoCall
    /\ topic_keywords = << >>

\* the same, for a topic with any of the strict keyword lists
InitClean ==
    /\ InitFetch
    /\ InitCleanFiles
    /\ InitNoCall
    /\ topic_keywords \in TopicKeywordLists

\* the per-unit locals of main() and iter_stories, before a unit starts
UnitLocalsReset ==
    /\ pagination_token' = NoToken
    /\ page' = << >>
    /\ consecutive_errors' = 0
    /\ wait' = 0
    /\ day_new' = 0
    /\ day_skipped' = 0
    /\ yielded' = << >>
    /\ last_exc' = NoExc

\* main(): out_path is urls.jsonl of the directory of dt.date.today(), the file of
\* the last run or (new_day) of a later date with nothing in it; load_existing_ids,
\* load_checkpoint, then pre-scan reads the file, which raises on a null publish_date
StartRun(q, new_day) ==
    /\ pc \in {"idle", "done"}
    /\ new_day => (queries_run # {} /\ Len(raw_dirs) + 1 < MaxRunDays)
    /\ query' = q
    /\ out_file' = IF new_day THEN << >> ELSE out_file
    /\ raw_dirs' = IF new_day THEN Append(raw_dirs, out_file) ELSE raw_dirs
    /\ IF PrescanRaises(out_file')
       THEN /\ existing_ids' = {}
            /\ checkpoint' = FreshCheckpoint("")
            /\ pc' = "idle"
            /\ scan' = 0
       ELSE /\ existing_ids' = load_existing_ids(out_file')
            /\ checkpoint' = load_checkpoint(ckpt_file, q)
            /\ pc' = "prescan"
            /\ scan' = 1
    /\ idx' = 0
    /\ UnitLocalsReset
    /\ last_lookup' = NoLookup
    /\ queries_run' = queries_run \cup {q}
    /\ persisted' = IF q = query \/ persisted = NoHistory THEN persisted ELSE {}
    /\ UNCHANGED ckpt_file
    /\ UNCHANGED <<clean_vars, call_vars>>

\* prescan_and_mark_complete: one (day, source) of its while/for loops
PrescanStepBody ==
    /\ pc = "prescan"
    /\ scan <= NumUnits
    /\ LET day == PrescanUnit(scan)[1]
           src == PrescanUnit(scan)[2]
           have == PrescanCount(out_file, day, src)
       IN IF is_complete(checkpoint, day, src) \/ have = 0
          THEN /\ UNCHANGED checkpoint
               /\ last_lookup' = NoLookup
          ELSE \E script \in CountScripts(query, day, src) :
                 LET expected == ExpectedCount(checkpoint, script, day, SourceId(src))
                     cached == CacheCount(checkpoint, script, day, SourceId(src))
                 IN /\ checkpoint' = IF ShouldMark(expected, have)
                                      THEN mark_complete(cached, day, src)
                                      ELSE cached
                    /\ last_lookup' = Lookup(<<day, src>>, expected,
                                          ~IsCached(checkpoint, CacheKey(day, SourceId(src))))
    /\ scan' = scan + 1
    /\ UNCHANGED <<query, ckpt_file, out_file, pc, existing_ids, idx,
                   pagination_token, page, consecutive_errors, wait, day_new,
                   day_skipped, yielded, last_exc, queries_run, persisted>>
    /\ UNCHANGED <<raw_dirs, clean_vars>>

PrescanStep == PrescanStepBody /\ UNCHANGED call_vars

\* pre-scan returns; main() builds the day list and opens the output for append
PrescanDone ==
    /\ pc = "prescan"
    /\ scan > NumUnits
    /\ pc' = "loop"
    /\ idx' = 1
    /\ last_lookup' = NoLookup
    /\ UNCHANGED <<query, ckpt_file, out_file, checkpoint, existing_ids, scan,
                   pagination_token, page, consecutive_errors, wait, day_new,
                   day_skipped, yielded, last_exc, queries_run, persisted>>
    /\ UNCHANGED <<raw_dirs, clean_vars, call_vars>>

\* "already complete, skipping"
LoopSkip ==
    /\ pc = "loop"
    /\ idx <= NumUnits
    /\ is_complete(checkpoint, LoopUnit(idx)[1], LoopUnit(idx)[2])
    /\ idx' = idx + 1
    /\ last_lookup' = NoLookup
    /\ UNCHANGED <<query, ckpt_file, out_file, pc, checkpoint, existing_ids, scan,
                   pagination_token, page, consecutive_errors, wait, day_new,
                   day_skipped, yielded, last_exc, queries_run, persisted>>
    /\ UNCHANGED <<raw_dirs, clean_vars, call_vars>>

\* "fetching...": day_new = day_skipped = 0 and iter_stories is created
LoopBegin ==
    /\ pc = "loop"
    /\ idx <= NumUnits
    /\ ~is_complete(checkpoint, LoopUnit(idx)[1], LoopUnit(idx)[2])
    /\ pc' = "fetching"
    /\ UnitLocalsReset
    /\ last_lookup' = NoLookup
    /\ UNCHANGED <<query, ckpt_file, out_file, checkpoint, existing_ids, scan, idx,
                   queries_run, persisted>>
    /\ UNCHANGED <<raw_dirs, clean_vars, call_vars>>

\* iter_stories: client.story_list returns a page
StoryListOk ==
    /\ pc = "fetching"
    /\ LET pages == StoryPages(query, LoopUnit(idx)[1], LoopUnit(idx)[2])
           sent == IF consecutive_errors > 0 THEN RetryToken(pagination_token)
                   ELSE pagination_token
       IN /\ page' = PageAt(pages, sent)
          /\ pagination_token' = TokenAfter(pages, sent)
          /\ pc' = IF PageAt(pages, sent) = << >> THEN "count" ELSE "yield"
    /\ consecutive_errors' = 0
    /\ last_exc' = NoExc
    /\ last_lookup' = NoLookup
    /\ UNCHANGED <<query, ckpt_file, out_file, checkpoint, existing_ids, scan, idx,
                   wait, day_new, day_skipped, yielded, queries_run, persisted>>
    /\ UNCHANGED <<raw_dirs, clean_vars, call_vars>>

\* iter_stories: client.story_list raises and the except clause retries
StoryListTransient(m, cap) ==
    /\ pc = "fetching"
    /\ IsTransient(m)
    /\ consecutive_errors < cap
    /\ consecutive_errors' = consecutive_errors + 1
    /\ wait' = BackoffWait(consecutive_errors + 1)
    /\ last_exc' = m
    /\ last_lookup' = NoLookup
    /\ UNCHANGED <<query, ckpt_file, out_file, pc, checkpoint, existing_ids, scan,
                   idx, pagination_token, page, day_new, day_skipped, yielded,
                   queries_run, persisted>>
    /\ UNCHANGED <<raw_dirs, clean_vars, call_vars>>

\* variant: the loop is left (break) instead of continued
StoryListFatal_break(m) ==
    /\ pc = "fetching"
    /\ ~IsTransient(m)
    /\ pc' = "save_final"
    /\ last_exc' = m
    /\ last_lookup' = NoLookup
    /\ UNCHANGED <<query, ckpt_file, out_file, checkpoint, existing_ids, scan, idx,
                   pagination_token, page, consecutive_errors, wait, day_new,
                   day_skipped, yielded, queries_run, persisted>>
    /\ UNCHANGED <<raw_dirs, clean_vars, call_vars>>

\* iter_stories re-raises; main() prints ERROR and continues with the next unit
StoryListFatal(m) ==
    /\ pc = "fetching"
    /\ ~IsTransient(m)
    /\ pc' = "loop"
    /\ idx' = idx + 1
    /\ last_exc' = m
    /\ last_lookup' = NoLookup
    /\ UNCHANGED <<query, ckpt_file, out_file, checkpoint, existing_ids, scan,
                   pagination_token, page, consecutive_errors, wait, day_new,
                   day_skipped, yielded, queries_run, persisted>>
    /\ UNCHANGED <<raw_dirs, clean_vars, call_vars>>

\* the body of main()'s for loop for one yielded story
ConsumeStory ==
    /\ pc = "yield"
    /\ page # << >>
    /\ LET story == Story(Head(page), LoopUnit(idx)[1], LoopUnit(idx)[2])
       IN /\ yielded' = Append(yielded, story.id)
          /\ IF story.id \in existing_ids
             THEN /\ day_skipped' = day_skipped + 1
                  /\ UNCHANGED <<out_file, existing_ids, day_new>>
             ELSE /\ out_file' = Append(out_file, OutputLine(story))
                  /\ existing_ids' = existing_ids \cup {story.id}
                  /\ day_new' = day_new + 1
                  /\ UNCHANGED day_skipped
    /\ page' = Tail(page)
    /\ pc' = IF Tail(page) # << >> THEN "yield"
             ELSE IF pagination_token # NoToken THEN "fetching" ELSE "count"
    /\ last_lookup' = NoLookup
    /\ UNCHANGED <<query, ckpt_file, checkpoint, scan, idx, pagination_token,
                   consecutive_errors, wait, last_exc, queries_run, persisted>>
    /\ UNCHANGED <<raw_dirs, clean_vars, call_vars>>

\* after the unit's stories: the expected count is consulted, the unit marked
CountUnitBody ==
    /\ pc = "count"
    /\ LET day == LoopUnit(idx)[1]
           src == LoopUnit(idx)[2]
           have == day_new + day_skipped
       IN \E script \in CountScripts(query, day, src) :
            LET expected == ExpectedCount(checkpoint, script, day, SourceId(src))
                cached == CacheCount(checkpoint, script, day, SourceId(src))
            IN /\ last_lookup' = Lookup(<<day, src>>, expected,
                                          ~IsCached(checkpoint, CacheKey(day, SourceId(src))))
               /\ IF ShouldMark(expected, have)
                  THEN /\ checkpoint' = mark_complete(cached, day, src)
                       /\ pc' = "save_unit"
                       /\ UNCHANGED idx
                  ELSE /\ checkpoint' = cached
                       /\ pc' = "loop"
                       /\ idx' = idx + 1
    /\ UNCHANGED <<query, ckpt_file, out_file, existing_ids, scan, pagination_token,
                   page, consecutive_errors, wait, day_new, day_skipped, yielded,
                   last_exc, queries_run, persisted>>
    /\ UNCHANGED <<raw_dirs, clean_vars>>

CountUnit == CountUnitBody /\ UNCHANGED call_vars

\* save_checkpoint right after mark_complete
SaveUnit ==
    /\ pc = "save_unit"
    /\ ckpt_file' = save_checkpoint(checkpoint)
    /\ persisted' = Saved(checkpoint.completed)
    /\ pc' = "loop"
    /\ idx' = idx + 1
    /\ last_lookup' = NoLookup
    /\ UNCHANGED <<query, out_file, checkpoint, existing_ids, scan, pagination_token,
                   page, consecutive_errors, wait, day_new, day_skipped, yielded,
                   last_exc, queries_run>>
    /\ UNCHANGED <<raw_dirs, clean_vars, call_vars>>

\* the for loops end
LoopDone ==
    /\ pc = "loop"
    /\ idx > NumUnits
    /\ pc' = "save_final"
    /\ last_lookup' = NoLookup
    /\ UNCHANGED <<query, ckpt_file, out_file, checkpoint, existing_ids, scan, idx,
                   pagination_token, page, consecutive_errors, wait, day_new,
                   day_skipped, yielded, last_exc, queries_run, persisted>>
    /\ UNCHANGED <<raw_dirs, clean_vars, call_vars>>

\* the save_checkpoint after the loop; "Done!"
SaveFinal ==
    /\ pc = "save_final"
    /\ ckpt_file' = save_checkpoint(checkpoint)
    /\ persisted' = Saved(checkpoint.completed)
    /\ pc' = "done"
    /\ last_lookup' = NoLookup
    /\ UNCHANGED <<query, out_file, checkpoint, existing_ids, scan, idx,
                   pagination_token, page, consecutive_errors, wait, day_new,
                   day_skipped, yielded, last_exc, queries_run>>
    /\ UNCHANGED <<raw_dirs, clean_vars, call_vars>>

\* memory is gone with the process
MemoryLost ==
    /\ checkpoint' = FreshCheckpoint("")
    /\ existing_ids' = {}
    /\ scan' = 0
    /\ idx' = 0
    /\ UnitLocalsReset
    /\ last_lookup' = NoLookup

\* the process is killed between two steps
Kill ==
    /\ Running
    /\ pc' = "idle"
    /\ MemoryLost
    /\ UNCHANGED <<query, ckpt_file, out_file, queries_run, persisted>>
    /\ UNCHANGED <<raw_dirs, clean_vars, call_vars>>

\* the process is killed inside save_checkpoint, after open("w") truncated the file
KillDuringSave ==
    /\ pc \in {"save_unit", "save_final"}
    /\ ckpt_file' = CorruptFile
    /\ pc' = "idle"
    /\ MemoryLost
    /\ UNCHANGED <<query, out_file, queries_run, persisted>>
    /\ UNCHANGED <<raw_dirs, clean_vars, call_vars>>

\* runs of one calendar day (one output file), the query edited between runs
Next ==
    \/ \E q \in Queries : StartRun(q, FALSE)
    \/ PrescanStep
    \/ PrescanDone
    \/ LoopSkip
    \/ LoopBegin
    \/ StoryListOk
    \/ \E m \in RunExcMessages : StoryListTransient(m, MaxRetriesInRun)
    \/ \E m \in RunExcMessages : StoryListFatal(m)
    \/ ConsumeStory
    \/ CountUnit
    \/ SaveUnit
    \/ LoopDone
    \/ SaveFinal
    \/ Kill
    \/ KillDuringSave

Spec == Init /\ [][Next]_vars

\* runs of one query on consecutive calendar days: a run of a later date opens the
\* urls.jsonl of its own date directory; the checkpoint is the topic's. A failed
\* page request ends the unit here; the retries are explored in Spec and SpecRetry
NextDays ==
    \/ \E new_day \in BOOLEAN : StartRun(QUERY_A, new_day)
    \/ PrescanStep
    \/ PrescanDone
    \/ LoopSkip
    \/ LoopBegin
    \/ StoryListOk
    \/ \E m \in RunExcMessages : StoryListFatal(m)
    \/ ConsumeStory
    \/ CountUnit
    \/ SaveUnit
    \/ LoopDone
    \/ SaveFinal
    \/ Kill
    \/ KillDuringSave

SpecDays == Init /\ [][NextDays]_vars

InitResume ==
    /\ InitFetchState
    /\ persisted = {}
    /\ InitCleanFiles
    /\ InitNoCall
    /\ topic_keywords = << >>

\* the same runs, the units each save has written kept as history
SpecResume == InitResume /\ [][NextDays]_vars

\* Runs that find a checkpoint file written before query fingerprints were stored:
\* any units marked complete, the counts cached or not, no query_hash.  The call
\* record keeps the file found, for the fetch runs to be compared with.
LegacyCounts == {<<<<d, SourceId(src)>>, 1>> : d \in Days, src \in OutletSet}
LegacyCheckpoints ==
    {[completed |-> c, expected_counts |-> e, query_hash |-> ""] :
        c \in SUBSET (OutletSet \X Days), e \in {{}, LegacyCounts}}

InitLegacy ==
    /\ query = QUERY_A
    /\ \E data \in LegacyCheckpoints :
          /\ ckpt_file = JsonFile(data)
          /\ call = [fn |-> "load_checkpoint", file |-> JsonFile(data)]
    /\ ret = NoRet
    /\ out_file = << >>
    /\ raw_dirs = << >>
    /\ pc = "idle"
    /\ checkpoint = FreshCheckpoint("")
    /\ existing_ids = {}
    /\ scan = 0
    /\ idx = 0
    /\ pagination_token = NoToken
    /\ page = << >>
    /\ consecutive_errors = 0
    /\ wait = 0
    /\ day_new = 0
    /\ day_skipped = 0
    /\ yielded = << >>
    /\ last_exc = NoExc
    /\ last_lookup = NoLookup
    /\ queries_run = {}
    /\ persisted = NoHistory
    /\ InitCleanFiles
    /\ topic_keywords = << >>

NextLegacy ==
    \/ \E q \in Queries : StartRun(q, FALSE)
    \/ PrescanStep
    \/ PrescanDone
    \/ LoopSkip
    \/ LoopBegin
    \/ StoryListOk
    \/ ConsumeStory
    \/ CountUnit
    \/ SaveUnit
    \/ LoopDone
    \/ SaveFinal

SpecLegacy == InitLegacy /\ [][NextLegacy]_vars

\* Runs that are never killed and keep the query of the first one, with every
\* exception message and long failure streaks: the exploration of iter_stories'
\* retry loop.
NextRetry ==
    \/ (pc = "idle" /\ \E q \in Queries : StartRun(q, FALSE))
    \/ (pc = "done" /\ StartRun(query, FALSE))
    \/ PrescanStep
    \/ PrescanDone
    \/ LoopSkip
    \/ LoopBegin
    \/ StoryListOk
    \/ \E m \in ExcMessages : StoryListTransient(m, MaxConsecutiveErrors)
    \/ \E m \in ExcMessages : StoryListFatal(m)
    \/ ConsumeStory
    \/ CountUnit
    \/ SaveUnit
    \/ LoopDone
    \/ SaveFinal

SpecRetry == Init /\ [][NextRetry]_vars

\* ------------------------------------------------------ the count lookups of all runs
\* the calls of get_expected_count_cached so far that got a count (>= 0) from the
\* count API, as <<query, unit>>
NoCounts == [fn |-> "get_expected_count_cached", counted |-> {}]

\* the call of the step, if it got a count from the API, is added
LogLookup ==
    /\ call' = IF last_lookup'.made /\ last_lookup'.api /\ last_lookup'.value >= 0
               THEN [call EXCEPT !.counted = @ \cup {<<query, last_lookup'.unit>>}]
               ELSE call
    /\ UNCHANGED ret

PrescanStepLogged == PrescanStepBody /\ LogLookup
CountUnitLogged == CountUnitBody /\ LogLookup

InitCounts ==
    /\ InitFetch
    /\ InitCleanFiles
    /\ topic_keywords = << >>
    /\ call = NoCounts
    /\ ret = NoRet

NextCounts ==
    \/ \E q \in Queries : StartRun(q, FALSE)
    \/ PrescanStepLogged
    \/ PrescanDone
    \/ LoopSkip
    \/ LoopBegin
    \/ StoryListOk
    \/ \E m \in RunExcMessages : StoryListTransient(m, MaxRetriesInRun)
    \/ \E m \in RunExcMessages : StoryListFatal(m)
    \/ ConsumeStory
    \/ CountUnitLogged
    \/ SaveUnit
    \/ LoopDone
    \/ SaveFinal
    \/ Kill
    \/ KillDuringSave

\* the runs of Spec, with the count lookups of all runs recorded
SpecCounts == InitCounts /\ [][NextCounts]_vars

\* ====================================================== cleaning stage: runs
\* the keys of a line of articles.jsonl, in the order written: the keys of the dict
\* scrape_article returns
ARTICLE_KEY_ORDER ==
    <<"url", "final_url", "http_status", "description", "title", "success", "error",
      "scraped_at", "my_topic">>

\* key order of {**a, **b}: the keys of a, then the keys only b has
MergedKeys(a_keys, b_keys) ==
    a_keys \o SelectSeq(b_keys, LAMBDA k : k \notin SeqSet(a_keys))

\* json.dumps(merged) of an article with a url
CombinedLine(article) ==
    LET url_keys == IF HasUrlEntry(article.url)
                    THEN KeysOf(urls_by_url(article.url), urls_line_keys(STORY_KEYS))
                    ELSE << >>
    IN PairsInOrder(CombinedRecord(article),
                    MergedKeys(url_keys, KeysOf(article, ARTICLE_KEY_ORDER)), 1)

\* combine_raw_files(topic): the file it writes, a line for each article with a url
CombinedFile(all_articles, now) ==
    LET articles == SelectSeq(all_articles, LAMBDA a : ~Falsy(Get(a, "url", None)))
    IN FileOf(<<create_meta_header(CleanTopic, Len(articles), <<RAW_DAY>>, now)>> \o
              [i \in 1..Len(articles) |-> CombinedLine(articles[i])])

\* the scrape stage in resume mode appends a record to articles.jsonl
ScrapeArticle(a) ==
    /\ Len(raw_articles) < MaxArticles
    /\ raw_articles' = Append(raw_articles, a)
    /\ UNCHANGED <<topic_keywords, clean_file, tmp_file, combined_file, clean_clock,
                   last_clean>>
    /\ UNCHANGED <<fetch_vars, call_vars>>

\* what a run of process_date_dir may hand to write_jsonl, the records being of the
\* catalogue: a record for each url of work, which is not empty and has no url twice
ScrapeResults(catalogue) ==
    {out \in SeqsUpTo({a \in catalogue : ~Falsy(Get(a, "url", None))}, MaxArticles) :
        /\ out # << >>
        /\ \A i, j \in 1..Len(out) : i < j => out[i].url # out[j].url}

\* the scrape stage run with --no-resume: write_jsonl with append=False puts the
\* results of the run in the place of articles.jsonl
ScrapeNoResume(out) ==
    /\ raw_articles' = out
    /\ UNCHANGED <<topic_keywords, clean_file, tmp_file, combined_file, clean_clock,
                   last_clean>>
    /\ UNCHANGED <<fetch_vars, call_vars>>

\* main() of mediacloud/clean.py, from argument parsing to exit
CleanRun(append, no_write) ==
    LET existing_entries == ExistingEntries(append, clean_file)
        loop == ProcessArticles(raw_articles, Len(raw_articles), existing_entries,
                                topic_keywords)
        fault == ~loop.raised /\ loop.missing_urls # << >>
        summary == ~loop.raised /\ ~fault
        unsorted == existing_entries \o loop.new_entries
        raises == summary /\ loop.count_added > 0 /\ SortRaises(unsorted)
        writes == summary /\ loop.count_added > 0 /\ ~raises /\ ~no_write
        now == clean_clock + 1
        unsorted_keys ==
            ExistingKeys(append, clean_file) \o
                [i \in 1..Len(loop.new_entries) |-> cleaned_keys(loop.new_entries[i])]
        all_entries == SortEntries(unsorted)
        all_keys == SortedWith(unsorted, unsorted_keys)
        meta == create_meta_header(CleanTopic, Len(all_entries), <<RAW_DAY>>, now)
    IN /\ clean_clock < MaxClock
       /\ clean_clock' = now
       /\ last_clean' =
             [ran |-> TRUE, append |-> append, no_write |-> no_write,
              articles_entries |-> raw_articles,
              count_articles |-> Len(raw_articles),
              exit_code |-> IF loop.raised \/ fault \/ raises THEN 1 ELSE 0,
              raised |-> loop.raised \/ raises, wrote |-> writes,
              summary |-> summary, config_fault |-> FALSE,
              repeat |-> /\ last_clean.ran
                         /\ last_clean.append = append
                         /\ last_clean.no_write = no_write
                         /\ last_clean.articles_entries = raw_articles,
              loop |-> loop]
       /\ IF writes
          THEN /\ clean_file' = WriteJsonl(meta, all_entries, all_keys)
               /\ tmp_file' = WriteJsonl(meta, all_entries, all_keys)
               /\ combined_file' = CombinedFile(raw_articles, now)
          ELSE UNCHANGED <<clean_file, tmp_file, combined_file>>
       /\ UNCHANGED <<topic_keywords, raw_articles>>
       /\ UNCHANGED <<fetch_vars, call_vars>>

NextClean ==
    \/ \E a \in ArticleCatalogue : ScrapeArticle(a)
    \/ \E out \in ScrapeResults(ArticleCatalogue) : ScrapeNoResume(out)
    \/ \E append \in BOOLEAN, no_write \in NoWriteFlags : CleanRun(append, no_write)

\* a topic configuration, scrape records arriving, articles.jsonl replaced by a scrape
\* with --no-resume, clean runs in either mode
SpecClean == InitClean /\ [][NextClean]_vars

NextFaults ==
    \/ \E a \in FaultCatalogue : ScrapeArticle(a)
    \/ \E out \in ScrapeResults(FaultCatalogue) : ScrapeNoResume(out)
    \/ \E append \in BOOLEAN, no_write \in NoWriteFlags : CleanRun(append, no_write)

\* the same with faulty records in the raw streams
SpecFaults == InitClean /\ [][NextFaults]_vars

\* the scrape stage has written any records; no clean run yet
InitOutcomes ==
    /\ InitFetch
    /\ InitNoCall
    /\ raw_articles \in SeqsUpTo(OutcomeCatalogue, MaxArticles)
    /\ clean_file = AbsentFile
    /\ tmp_file = AbsentFile
    /\ combined_file = AbsentFile
    /\ clean_clock = 0
    /\ last_clean = NoCleanRun
    /\ topic_keywords \in TopicKeywordLists

\* records scraped between two clean runs: the catalogue's successful records of
\* https://x/1 and https://x/2
LateArticles == {a \in ArticleCatalogue : a.url \in {"https://x/1", "https://x/2"}}

NextOutcomes ==
    \/ \E a \in LateArticles : last_clean.ran /\ ScrapeArticle(a)
    \/ \E out \in ScrapeResults(LateArticles) : last_clean.ran /\ ScrapeNoResume(out)
    \/ \E append \in BOOLEAN, no_write \in NoWriteFlags : CleanRun(append, no_write)

\* clean runs in either mode over any raw stream, and over one that has grown or
\* has been replaced
SpecOutcomes == InitOutcomes /\ [][NextOutcomes]_vars

\* ====================================================== startup
\* the topics of config.py, and the --topic arguments explored (None: not given)
TOPICS == {"minneapolis-ice", "greenland-trump"}
DEFAULT_TOPIC == "minneapolis-ice"
TopicArguments == {NoneStr, "gaza"}

\* get_topic_config(topic_name): the name of the topic found, or ValueError raised
get_topic_config(topic_name) ==
    LET name == IF topic_name \in {NoneStr, ""} THEN DEFAULT_TOPIC ELSE topic_name
    IN IF name \notin TOPICS THEN ValueError ELSE name

\* the exit codes of the other error classes: sys.exit(1) of the data-integrity
\* fault, return 2 of print_output_stats when an input file is missing
EXIT_DATA_INTEGRITY == 1
EXIT_MISSING_INPUT == 2

\* the exit code of the fetch stage's main() when it ends at startup
FetchStartupExit(topic_name, has_api_key) ==
    IF get_topic_config(topic_name) = ValueError THEN 1
    ELSE IF ~has_api_key THEN 2
    ELSE 0

\* the fetch stage is started with an unknown topic or without an API key: main()
\* ends at get_topic_config or at require_client
FetchConfigFault(topic_name, has_api_key) ==
    /\ pc \in {"idle", "done"}
    /\ FetchStartupExit(topic_name, has_api_key) # 0
    /\ call' = [fn |-> "fetch_main", topic |-> topic_name, api_key |-> has_api_key]
    /\ ret' = Returned(FetchStartupExit(topic_name, has_api_key))
    /\ UNCHANGED <<fetch_vars, clean_vars>>

\* the clean stage is started with an unknown topic: main() ends at get_topic_config
CleanConfigFault(topic_name) ==
    /\ get_topic_config(topic_name) = ValueError
    /\ last_clean' = [NoCleanRun EXCEPT !.ran = TRUE, !.config_fault = TRUE,
                                        !.exit_code = 1]
    /\ UNCHANGED <<topic_keywords, raw_articles, clean_file, tmp_file, combined_file,
                   clean_clock>>
    /\ UNCHANGED <<fetch_vars, call_vars>>

\* records scraped in the runs of the startup exploration: one that is written, one
\* whose url has no metadata
StartupCatalogue ==
    { Article("https://x/2", TRUE, "World news",
              "Greenland trade deal advances"),
      Article("https://x/5", TRUE, "Greenland deal", "Trump offer") }

NextStartup ==
    \/ (pc = "idle" /\ StartRun(QUERY_A, FALSE))
    \/ PrescanStep
    \/ PrescanDone
    \/ LoopBegin
    \/ StoryListOk
    \/ ConsumeStory
    \/ CountUnit
    \/ SaveUnit
    \/ LoopDone
    \/ SaveFinal
    \/ \E t \in TopicArguments, k \in BOOLEAN : FetchConfigFault(t, k)
    \/ \E t \in TopicArguments : CleanConfigFault(t)
    \/ \E a \in StartupCatalogue : ScrapeArticle(a)
    \/ \E out \in ScrapeResults(StartupCatalogue) : ScrapeNoResume(out)
    \/ CleanRun(FALSE, FALSE)

\* runs of both stages, among them runs that end at startup
SpecStartup == Init /\ [][NextStartup]_vars

\* ====================================================== iter_stories on its own
\* bound on the pages the API delivers for one unit before it returns a null token
MaxPages == 3

\* page_size of the story_list request
PAGE_SIZE == 100

\* pages client.story_list may return: empty, one story, two stories
ApiPages == {<< >>, <<3>>, <<1, 2>>}

\* the token the API returns with a page: None, or the number of pages delivered
ApiTokens(sent) == IF sent + 1 < MaxPages THEN {NoToken, sent + 1} ELSE {NoToken}

\* more = pagination_token is not None
More_never(tok) == FALSE
More(tok) == tok # NoToken

\* the generator as called: the requests it made and the answers it got
IterCall ==
    [fn |-> "iter_stories", page_sizes |-> << >>, sent |-> << >>, pages |-> << >>,
     tokens |-> << >>]
StopIteration == "StopIteration"

\* client.story_list returns a page and a token
IterStoryListOk(p, tok) ==
    /\ call.fn = "iter_stories"
    /\ pc = "fetching"
    /\ Len(p) <= PAGE_SIZE
    /\ page' = p
    /\ pagination_token' = tok
    /\ consecutive_errors' = 0
    /\ call' = [call EXCEPT !.page_sizes = Append(@, PAGE_SIZE),
                            !.sent = Append(@, pagination_token),
                            !.pages = Append(@, p),
                            !.tokens = Append(@, tok)]
    /\ IF p = << >>
       THEN pc' = "returned" /\ ret' = Returned(StopIteration)
       ELSE pc' = "yield" /\ UNCHANGED ret
    /\ UNCHANGED <<query, ckpt_file, out_file, checkpoint, existing_ids, scan, idx,
                   wait, day_new, day_skipped, yielded, last_exc, last_lookup,
                   queries_run, persisted>>
    /\ UNCHANGED <<raw_dirs, clean_vars>>

\* client.story_list raises and the except clause sleeps and continues
IterTransient(m) ==
    /\ call.fn = "iter_stories"
    /\ pc = "fetching"
    /\ IsTransient(m)
    /\ consecutive_errors < MaxRetriesInRun
    /\ consecutive_errors' = consecutive_errors + 1
    /\ wait' = BackoffWait(consecutive_errors + 1)
    /\ last_exc' = m
    /\ UNCHANGED <<query, ckpt_file, out_file, pc, checkpoint, existing_ids, scan,
                   idx, pagination_token, page, day_new, day_skipped, yielded,
                   last_lookup, queries_run, persisted>>
    /\ UNCHANGED <<raw_dirs, clean_vars, call_vars>>

\* client.story_list raises and the except clause re-raises
IterRaise(m) ==
    /\ call.fn = "iter_stories"
    /\ pc = "fetching"
    /\ ~IsTransient(m)
    /\ pc' = "raised"
    /\ last_exc' = m
    /\ ret' = Returned(m)
    /\ UNCHANGED <<query, ckpt_file, out_file, checkpoint, existing_ids, scan, idx,
                   pagination_token, page, consecutive_errors, wait, day_new,
                   day_skipped, yielded, last_lookup, queries_run, persisted>>
    /\ UNCHANGED <<raw_dirs, clean_vars, call>>

\* for s in page: yield s; after the last one, more is computed
IterYield ==
    /\ call.fn = "iter_stories"
    /\ pc = "yield"
    /\ page # << >>
    /\ yielded' = Append(yielded, Head(page))
    /\ page' = Tail(page)
    /\ IF Tail(page) # << >> THEN pc' = "yield" /\ UNCHANGED ret
       ELSE IF More(pagination_token) THEN pc' = "fetching" /\ UNCHANGED ret
       ELSE pc' = "returned" /\ ret' = Returned(StopIteration)
    /\ UNCHANGED <<query, ckpt_file, out_file, checkpoint, existing_ids, scan, idx,
                   pagination_token, consecutive_errors, wait, day_new, day_skipped,
                   last_exc, last_lookup, queries_run, persisted>>
    /\ UNCHANGED <<raw_dirs, clean_vars, call>>

InitPages ==
    /\ query = QUERY_A
    /\ ckpt_file = NoFile
    /\ out_file = << >>
    /\ raw_dirs = << >>
    /\ pc = "fetching"
    /\ checkpoint = FreshCheckpoint("")
    /\ existing_ids = {}
    /\ scan = 0
    /\ idx = 0
    /\ pagination_token = NoToken
    /\ page = << >>
    /\ consecutive_errors = 0
    /\ wait = 0
    /\ day_new = 0
    /\ day_skipped = 0
    /\ yielded = << >>
    /\ last_exc = NoExc
    /\ last_lookup = NoLookup
    /\ queries_run = {}
    /\ persisted = NoHistory
    /\ InitCleanFiles
    /\ topic_keywords = << >>
    /\ call = IterCall
    /\ ret = NoRet

AnyStoryListOk ==
    \E p \in ApiPages : \E tok \in ApiTokens(pagination_token) : IterStoryListOk(p, tok)

NextPages ==
    \/ AnyStoryListOk
    \/ \E m \in RunExcMessages : IterTransient(m)
    \/ \E m \in RunExcMessages : IterRaise(m)
    \/ IterYield

\* one call of iter_stories, consumed to its end, against an API that answers each
\* request with any page and token or with an exception; the API answers a request
\* in the end, and the consumer asks for the next story
SpecPages ==
    InitPages /\ [][NextPages]_vars /\ WF_vars(AnyStoryListOk) /\ WF_vars(IterYield)

\* ====================================================== scrape stage
\* mediacloud/collect/scrape-articles.py process_date_dir (collect/describe.py main
\* has the same body) on the directory of one date: urls.jsonl is out_file,
\* articles.jsonl is raw_articles.  The arguments and locals of the call in progress
\* are the fields of call; --limit and --trial3 are not given.

\* bound on the lines the fetch stage has written to urls.jsonl
MaxUrlLines == 2

\* the urls of the stories found
ScrapeUrls == {"https://x/1", "https://x/5"}
\* args.workers of the runs explored: the sequential loop and a pool of two threads
WorkerCounts == {1, 2}

\* json.dumps(story): the fields of a line the scrape stage reads
StoryLine(u) == [url |-> u, my_topic |-> Topic]

RECURSIVE lstrip(_)
lstrip(s) ==
    IF s # "" /\ IsSpace(CharAt(s, 1)) THEN lstrip(SubSeq(s, 2, Len(s))) ELSE s
RECURSIVE rstrip(_)
rstrip(s) ==
    IF s # "" /\ IsSpace(CharAt(s, Len(s))) THEN rstrip(SubSeq(s, 1, Len(s) - 1)) ELSE s
\* str.strip()
strip(s) == rstrip(lstrip(s))

\* v.strip() if v = record.get(key) is a str and v.strip() is not empty, else None
UrlUnder(record, key) ==
    LET v == Get(record, key, None)
    IN IF v # None /\ strip(v) # "" THEN strip(v) ELSE None

\* get_url(record): the first of url, link, uri that holds an address
get_url(record) ==
    IF UrlUnder(record, "url") # None THEN UrlUnder(record, "url")
    ELSE IF UrlUnder(record, "link") # None THEN UrlUnder(record, "link")
    ELSE UrlUnder(record, "uri")

\* list(dict.fromkeys(urls)): the first occurrence of each url, in order (kept whole)
Distinct_keep_all(urls) == urls
\* list(dict.fromkeys(urls)): the first occurrence of each url, in order
RECURSIVE Distinct(_)
Distinct(urls) ==
    IF urls = << >> THEN << >>
    ELSE LET before == Distinct(SubSeq(urls, 1, Len(urls) - 1))
             u == urls[Len(urls)]
         IN IF u \in SeqSet(before) THEN before ELSE Append(before, u)

\* read_urls_from_output(output_path)
read_urls_from_output(records) ==
    {strip(records[i]["url"]) :
        i \in {j \in 1..Len(records) :
                  /\ ~IsMetaObject(records[j])
                  /\ Get(records[j], "url", None) # None}}

\* scrape_article(url, topic): the record of a page fetched, or of a failure
scrape_article(url, success) ==
    [(IF success THEN Article(url, TRUE, "Greenland deal", "Trump offer")
      ELSE Article(url, FALSE, None, None)) EXCEPT !.my_topic = Topic]

Scraping == call.fn = "process_date_dir" /\ ~ret.made

\* the fetch stage appends a story to urls.jsonl
FetchWritesStory(u) ==
    /\ ~Scraping
    /\ Len(out_file) < MaxUrlLines
    /\ out_file' = Append(out_file, StoryLine(u))
    /\ UNCHANGED <<query, ckpt_file, pc, checkpoint, existing_ids, scan, idx,
                   pagination_token, page, consecutive_errors, wait, day_new,
                   day_skipped, yielded, last_exc, last_lookup, queries_run, persisted>>
    /\ UNCHANGED <<raw_dirs, clean_vars, call_vars>>

\* process_date_dir up to the start of the scraping, or to an early return
ProcessDateDir(no_resume, workers) ==
    LET records == LoadRecordsFrom(out_file, 1)
        urls_raw == [i \in 1..Len(records) |-> get_url(records[i])]
        urls == Distinct(SelectSeq(urls_raw, LAMBDA u : u # None))
        already == IF no_resume THEN {} ELSE read_urls_from_output(raw_articles)
        work == SelectSeq(urls, LAMBDA u : u \notin already)
    IN /\ ~Scraping
       /\ call' = [fn |-> "process_date_dir", no_resume |-> no_resume,
                   workers |-> workers, already |-> already, work |-> work,
                   queue |-> work, running |-> {}, done |-> {}, out |-> << >>,
                   ok |-> 0, fail |-> 0]
       /\ ret' = IF work = << >> THEN Returned(<<0, 0>>) ELSE NoRet
       /\ UNCHANGED <<fetch_vars, clean_vars>>

\* out.append(res) and the ok / fail count
Collected(res) ==
    [call EXCEPT !.out = Append(@, res),
                 !.ok = IF res.success THEN @ + 1 ELSE @,
                 !.fail = IF res.success THEN @ ELSE @ + 1]

\* workers <= 1: the loop scrapes the next url itself
SequentialScrape(success) ==
    /\ Scraping
    /\ call.workers <= 1
    /\ call.queue # << >>
    /\ call' = [Collected(scrape_article(Head(call.queue), success))
                   EXCEPT !.queue = Tail(call.queue)]
    /\ UNCHANGED <<ret, fetch_vars, clean_vars>>

\* a free thread of the pool takes the next submitted url
WorkerTakes ==
    /\ Scraping
    /\ call.workers > 1
    /\ call.queue # << >>
    /\ Cardinality(call.running) < call.workers
    /\ call' = [call EXCEPT !.queue = Tail(@), !.running = @ \cup {Head(call.queue)}]
    /\ UNCHANGED <<ret, fetch_vars, clean_vars>>

\* do_one(u) returns in its thread: the future is done
WorkerFinishes(u, success) ==
    /\ Scraping
    /\ u \in call.running
    /\ call' = [call EXCEPT !.running = @ \ {u},
                            !.done = @ \cup {scrape_article(u, success)}]
    /\ UNCHANGED <<ret, fetch_vars, clean_vars>>

\* as_completed hands a finished future to the main thread
CollectResult(res) ==
    /\ Scraping
    /\ res \in call.done
    /\ call' = [Collected(res) EXCEPT !.done = call.done \ {res}]
    /\ UNCHANGED <<ret, fetch_vars, clean_vars>>

\* after the loop: write_jsonl(output_path, out, append=...) and return
WriteResults ==
    LET append == ~call.no_resume
    IN /\ Scraping
       /\ call.queue = << >> /\ call.running = {} /\ call.done = {}
       /\ raw_articles' = IF append THEN raw_articles \o call.out ELSE call.out
       /\ ret' = Returned(<<call.ok, call.fail>>)
       /\ UNCHANGED <<topic_keywords, clean_file, tmp_file, combined_file,
                      clean_clock, last_clean>>
       /\ UNCHANGED <<call, fetch_vars>>

\* the futures that are done and not yet handed to the main thread
FinishedFutures == IF Scraping THEN call.done ELSE {}

\* the pipeline's stages on one date directory: stories arrive, the scrape stage
\* runs in either mode, the clean stage runs
NextScrape ==
    \/ \E u \in ScrapeUrls : FetchWritesStory(u)
    \/ \E no_resume \in BOOLEAN, workers \in WorkerCounts :
          ProcessDateDir(no_resume, workers)
    \/ \E success \in BOOLEAN : SequentialScrape(success)
    \/ WorkerTakes
    \/ \E u \in ScrapeUrls, success \in BOOLEAN : WorkerFinishes(u, success)
    \/ \E res \in FinishedFutures : CollectResult(res)
    \/ WriteResults
    \/ ~Scraping /\ CleanRun(FALSE, FALSE)

SpecScrape == Init /\ [][NextScrape]_vars

\* ====================================================== manifest
\* manifest.py.  A date is its proleptic ordinal within the year; its isoformat()
\* is the pair <<month, day>>, compared as Python compares the strings: by month,
\* then by day.  The manifest being updated is the value the last call returned.

\* bound on the update_manifest_after_run calls on one manifest
MaxRuns == 2

\* the dates of the runs explored: January 30 and 31, February 1
ManifestDates == {30, 31, 32}
\* dates_added of a run: any set of dates, and a list that names a date twice
DatesAdded ==
    {<< >>, <<30>>, <<31>>, <<32>>, <<30, 31>>, <<32, 30>>, <<31, 32>>,
     <<32, 31, 30>>, <<31, 31>>}
NewRecordCounts == {0, 2}

\* date.isoformat() and date.fromisoformat()
isoformat(d) == IF d <= 31 THEN <<1, d>> ELSE <<2, d - 31>>
fromisoformat(str) == IF str[1] = 1 THEN str[2] ELSE 31 + str[2]
\* str < str for two isoformat strings
IsoLess(a, b) == a[1] < b[1] \/ (a[1] = b[1] /\ a[2] < b[2])
\* None in a date field
NoDate == <<0, 0>>

\* max(strs) and sorted(strs) of a set of isoformat strings
IsoMax(strs) == CHOOSE m \in strs : \A x \in strs : x = m \/ IsoLess(x, m)
RECURSIVE IsoSorted(_)
IsoSorted(strs) ==
    IF strs = {} THEN << >>
    ELSE LET m == IsoMax(strs) IN Append(IsoSorted(strs \ {m}), m)

\* _next_date(d)
next_date(d) == d + 1

\* detect_gaps: the while loop from current to end_date
RECURSIVE GapsFrom(_, _, _)
GapsFrom(collected_set, current, end_date) ==
    IF current > end_date THEN << >>
    ELSE (IF isoformat(current) \notin collected_set THEN <<isoformat(current)>>
          ELSE << >>)
            \o GapsFrom(collected_set, next_date(current), end_date)

\* detect_gaps (no day reported)
detect_gaps_none(dates_collected, start_date, end_date) == << >>
\* detect_gaps(dates_collected, start_date, end_date)
detect_gaps(dates_collected, start_date, end_date) ==
    IF dates_collected = << >> THEN << >>
    ELSE GapsFrom(SeqSet(dates_collected), start_date, end_date)

create_empty_manifest(topic, start_date) ==
    [_manifest |-> TRUE, topic |-> topic,
     coverage |-> [start_date |-> isoformat(start_date), end_date |-> NoDate,
                   last_updated |-> [day |-> 0, time |-> 0]],
     dates_collected |-> << >>,
     daily_runs |-> << >>,
     record_count |-> 0,
     gaps |-> << >>]

\* daily_runs after the run of now: a mapping from day strings to run summaries
DailyRuns(daily_runs, now, mode) ==
    LET today_str == isoformat(now.day)
        before == IF today_str \in DOMAIN daily_runs THEN daily_runs[today_str]
                  ELSE [count |-> 0, first |-> now.time, last |-> now.time,
                        mode |-> mode]
    IN [k \in DOMAIN daily_runs \cup {today_str} |->
           IF k = today_str
           THEN [before EXCEPT !.count = @ + 1, !.last = now.time]
           ELSE daily_runs[k]]

update_manifest_after_run(manifest, dates_added, new_record_count, mode, now) ==
    LET existing_dates ==
            SeqSet(manifest.dates_collected)
                \cup {isoformat(dates_added[i]) : i \in 1..Len(dates_added)}
        dates_collected == IsoSorted(existing_dates)
        end_date == IF dates_collected # << >> THEN IsoMax(SeqSet(dates_collected))
                    ELSE manifest.coverage.end_date
    IN [manifest EXCEPT
           !.dates_collected = dates_collected,
           !.daily_runs = DailyRuns(@, now, mode),
           !.coverage = [@ EXCEPT !.end_date = end_date, !.last_updated = now],
           !.record_count = @ + new_record_count,
           !.gaps = IF dates_collected # << >>
                    THEN detect_gaps(dates_collected,
                                     fromisoformat(manifest.coverage.start_date),
                                     fromisoformat(end_date))
                    ELSE @]

\* the runs a manifest has recorded
RunsRecorded(manifest) == manifest.coverage.last_updated.time

\* a collection run ends: the manifest is updated
UpdateManifest(dates_added, new_record_count, today) ==
    /\ call.fn \in {"create_empty_manifest", "update_manifest_after_run"}
    /\ RunsRecorded(ret.value) < MaxRuns
    /\ today >= ret.value.coverage.last_updated.day
    /\ call' = [fn |-> "update_manifest_after_run", manifest |-> ret.value,
                dates_added |-> dates_added, new_record_count |-> new_record_count]
    /\ ret' = Returned(update_manifest_after_run(
                           ret.value, dates_added, new_record_count, "adhoc",
                           [day |-> today, time |-> RunsRecorded(ret.value) + 1]))
    /\ UNCHANGED <<fetch_vars, clean_vars>>

\* a topic's first collection: the empty manifest of its start date
InitManifest ==
    /\ InitFetch
    /\ InitCleanFiles
    /\ topic_keywords = << >>
    /\ \E start_date \in ManifestDates :
          /\ call = [fn |-> "create_empty_manifest", start_date |-> start_date]
          /\ ret = Returned(create_empty_manifest(Topic, start_date))

NextManifest ==
    \E dates_added \in DatesAdded, n \in NewRecordCounts, today \in ManifestDates :
        UpdateManifest(dates_added, n, today)

SpecManifest == InitManifest /\ [][NextManifest]_vars

\* ====================================================== functions on their own
\* bound on the lines of a file handed to a reader
MaxLines == 2

\* lines a record stream may hold: a meta header, a manifest, a cleaned record, a
\* story of the fetch stage, and story lines that carry a _meta flag, true and false
META_LINE == create_meta_header(CleanTopic, 1, <<RAW_DAY>>, 1)
MANIFEST_LINE ==
    << <<"_manifest", TRUE>>, <<"topic", CleanTopic>>, <<"record_count", 0>> >>
CLEAN_LINE ==
    LET cleaned_entry ==
            CleanedEntry(UrlRecord("https://x/1", "Daily roundup", DATE_JAN10))
    IN json_dumps(cleaned_entry, cleaned_keys(cleaned_entry))
STORY_LINE ==
    << <<"id", 1>>, <<"publish_date", START_DATE>>, <<"media_url", "foxnews.com">>,
       <<"my_topic", Topic>> >>
FLAGGED_STORY_LINE ==
    << <<"_meta", TRUE>>, <<"id", 2>>, <<"publish_date", START_DATE>>,
       <<"media_url", "foxnews.com">> >>
\* a story with a time in its date and a host name in its media_url
UNFLAGGED_STORY_LINE ==
    << <<"_meta", FALSE>>, <<"id", 3>>, <<"publish_date", START_DATE \o "T08:00:00">>,
       <<"media_url", "www.foxnews.com">> >>
\* a story whose publish_date is null
UNDATED_STORY_LINE ==
    << <<"id", 4>>, <<"publish_date", None>>, <<"media_url", "foxnews.com">> >>
\* a line {"urls": [...]}
URLS_LINE == << <<"urls", <<"https://x/1", "https://x/2">> >> >>
LineCatalogue ==
    {META_LINE, MANIFEST_LINE, CLEAN_LINE, STORY_LINE, FLAGGED_STORY_LINE,
     UNFLAGGED_STORY_LINE, UNDATED_STORY_LINE, URLS_LINE}


FilesOver(lines) == {AbsentFile} \cup {FileOf(ls) : ls \in SeqsUpTo(lines, MaxLines)}

\* files of the clean stage and of the gists, and output files of the fetch stage
ReaderFiles == FilesOver(LineCatalogue \ {UNDATED_STORY_LINE})
FetchFiles == FilesOver(LineCatalogue \ {CLEAN_LINE, URLS_LINE})

\* the readers that return the records of a file
ListReaders ==
    {"load_jsonl", "clean_load_jsonl", "getnews_load_jsonl",
     "load_records_skip_manifest", "load_records"}
\* the readers of the fetch stage: the id set, and the count pre-scan holds for a unit
FetchReaders == {"load_existing_ids", "prescan_count"}

\* jsonl: the suffix of the path is .jsonl or .ndjson (load_records looks at it)
ReaderCalls ==
    [fn : ListReaders \ {"load_records"}, file : ReaderFiles, jsonl : {TRUE}]
        \cup [fn : {"load_records"}, file : ReaderFiles, jsonl : BOOLEAN]
        \cup [fn : FetchReaders, file : FetchFiles, jsonl : {TRUE}]

\* the lines read by the loop of prescan_and_mark_complete, up to the count of a unit
prescan_count(file, day, src) ==
    IF PrescanRaises(file) THEN Raised("TypeError")
    ELSE Value(PrescanCount(file, day, src))

\* what the reader named fn returns for the file
ReadBy(fn, file, jsonl) ==
    CASE fn = "load_jsonl" -> load_jsonl(file)
      [] fn = "clean_load_jsonl" -> clean_load_jsonl(file)
      [] fn = "getnews_load_jsonl" -> getnews_load_jsonl(file)
      [] fn = "load_records_skip_manifest" -> load_records_skip_manifest(file)
      [] fn = "load_records" -> load_records(file, jsonl)
      [] fn = "load_existing_ids" -> load_existing_ids(ParsedLines(file))
      [] fn = "prescan_count" -> prescan_count(ParsedLines(file), 1, "foxnews.com")

\* a key that is not in the dict
Absent == "\fabsent"

\* a dict with the given values, without the keys whose value is Absent
DictOf(d) == [k \in {x \in DOMAIN d : d[x] # Absent} |-> d[k]]

\* entries handed to the loose filter
FilterTitles ==
    {Absent, None, "Trump visit", "United", "Police report", "Dealer news"}
FilterDescriptions ==
    {Absent, None, "States visit", "Greenlanders golfing"}
FilterEntries ==
    {DictOf([title |-> t, description |-> d]) :
        t \in FilterTitles, d \in FilterDescriptions}
\* filter_keywords and exclude_keywords a topic may configure
FilterKeywordLists == {<< >>, FILTER_KEYWORDS, <<"Trump">>}
ExcludeKeywordLists == {<< >>, <<"Golf">>, <<"visit", "golf">>}

IsTopicRelatedCalls ==
    [fn : {"is_topic_related"}, entry : FilterEntries,
     filter_keywords : FilterKeywordLists, exclude_keywords : ExcludeKeywordLists]
IsGazaRelatedCalls == [fn : {"is_gaza_related"}, entry : FilterEntries]

\* ---- merging published records with new ones
MaxRecords == 2
\* records of raw.jsonl: a url (absent, empty, or one of two) and a title
MergeRecords ==
    [url : {"", "https://x/1", "https://x/2"}, title : {"a", "b"}]
        \cup [title : {"a", "b"}]
MergeLists == SeqsUpTo(MergeRecords, MaxRecords)
MergeFunctions == {"getnews_merge", "dedupe_by_url"}
MergeCalls == [fn : MergeFunctions, existing : MergeLists, new : MergeLists]
\* r.get("url")
UrlOf(r) == Get(r, "url", NoneStr)
\* main: existing_raw + the formatted records whose url no existing record has
getnews_merge(existing_raw, formatted) ==
    LET existing_urls == {UrlOf(existing_raw[i]) : i \in 1..Len(existing_raw)}
        new_records == SelectSeq(formatted, LAMBDA r : UrlOf(r) \notin existing_urls)
    IN existing_raw \o new_records
\* the loop over all_records with seen_urls
RECURSIVE DedupeFrom(_, _, _)
DedupeFrom(all_records, seen_urls, unique_records) ==
    IF all_records = << >> THEN unique_records
    ELSE LET record == Head(all_records)
             url == UrlOf(record)
             keep == url \notin {NoneStr, ""} /\ url \notin seen_urls
         IN DedupeFrom(Tail(all_records),
                       IF keep THEN seen_urls \cup {url} ELSE seen_urls,
                       IF keep THEN Append(unique_records, record) ELSE unique_records)
dedupe_by_url(all_records) == DedupeFrom(all_records, {}, << >>)
MergeBy(fn, existing, new) ==
    CASE fn = "getnews_merge" -> getnews_merge(existing, new)
      [] fn = "dedupe_by_url" -> dedupe_by_url(existing \o new)
\* ---- getnews clean --push: download, merge, upload
\* how gh gist view ends: return code 0, another return code, or the 30 s timeout
DownloadOutcomes == {"ok", "failed", "timeout"}
\* the stories of this run after format_story_for_raw
PushFormatted == SeqsUpTo(MergeRecords, 1)
\* the records other writers hold, stories their runs find and records of the old
\* per-topic gists: the url empty, one a record of main may have, one only another
\* writer holds, or absent
OtherRecords ==
    [url : {"", "https://x/1", "https://x/3"}, title : {"c"}] \cup {[title |-> "c"]}
\* what the gist held before main started, as a run that began earlier downloaded
\* it: nothing, or one record
OlderVersions == SeqsUpTo(OtherRecords, 1)
\* formatted of another run of main
OtherFormatted == SeqsUpTo(OtherRecords, 1)
\* the records parse_jsonl reads from the raw.jsonl of the old gists, one after the
\* other
OldGistRecords == SeqsUpTo(OtherRecords, MaxRecords)
\* bound on the uploads other writers make during one run of main
MaxOtherWrites == 2
\* main with --push before its first step: gist is what raw.jsonl of the gist holds,
\* before what it held when main started, versions what it held at any time since
PushCalls ==
    {[fn |-> "getnews_clean_push", phase |-> "start", before |-> remote,
      gist |-> remote, download |-> d, formatted |-> f, upload |-> u,
      existing_raw |-> << >>, backup |-> FALSE, edits |-> 0, versions |-> {remote}] :
        remote \in MergeLists, d \in DownloadOutcomes, f \in PushFormatted,
        u \in BOOLEAN}
\* save_jsonl with a meta header: the lines of raw.jsonl
RawJsonl(records) ==
    <<[_meta |-> TRUE, record_count |-> Len(records)]>> \o records
\* gist_download("raw.jsonl"): the content, or None
gist_download(remote, outcome) ==
    IF outcome = "ok" THEN [none |-> FALSE, content |-> RawJsonl(remote)]
    ELSE [none |-> TRUE, content |-> << >>]
\* parse_jsonl_content(content)
parse_jsonl_content(content) == SelectSeq(content, LAMBDA obj : ~Flag(obj, "_meta"))
\* gist_upload("raw.jsonl", local_raw): gh gist edit replaces the file of the gist, or
\* fails and leaves it
gist_upload(gist, local_raw, ok) == IF ok THEN local_raw ELSE gist
\* ---- the count API's answers
\* mappings client.story_count may answer with: relevant and count absent, zero or
\* positive, next to the total of all stories
CountBodies ==
    {[total |-> 10]}
        \cup [relevant : {0, 3}, total : {10}]
        \cup [count : {0, 5}, total : {10}]
        \cup [relevant : {0, 3}, count : {0, 5}, total : {10}]
CountAnswers ==
    {[kind |-> "dict", body |-> b] : b \in CountBodies}
        \cup {[kind |-> "int", value |-> 4], Count429, CountErr}
\* the answers to the attempts of one call, up to the one that ends it
CountCallScripts ==
    {<<a>> : a \in CountAnswers \ {Count429}}
        \cup {<<Count429, a>> : a \in CountAnswers \ {Count429}}
        \cup {<<Count429, Count429, a>> : a \in CountAnswers}
GetExpectedCountCalls == [fn : {"get_expected_count"}, script : CountCallScripts]
Calls ==
    IsTopicRelatedCalls \cup IsGazaRelatedCalls \cup ReaderCalls \cup MergeCalls
        \cup GetExpectedCountCalls

\* the called function returns
Return(fn, value) ==
    /\ call.fn = fn
    /\ ~ret.made
    /\ ret' = Returned(value)
    /\ UNCHANGED <<call, fetch_vars, clean_vars>>

CallIsTopicRelated ==
    /\ call.fn = "is_topic_related"
    /\ Return("is_topic_related",
              is_topic_related(call.entry, call.filter_keywords, call.exclude_keywords))

CallIsGazaRelated ==
    /\ call.fn = "is_gaza_related"
    /\ Return("is_gaza_related", is_gaza_related(call.entry))

\* a reader loads a record stream
CallReader ==
    /\ call.fn \in ListReaders \cup FetchReaders
    /\ Return(call.fn, ReadBy(call.fn, call.file, call.jsonl))

\* published records are merged with new records
CallMerge ==
    /\ call.fn \in MergeFunctions
    /\ Return(call.fn, MergeBy(call.fn, call.existing, call.new))
\* get_expected_count is called and the API answers as scripted
CallGetExpectedCount ==
    /\ call.fn = "get_expected_count"
    /\ Return("get_expected_count", get_expected_count(call.script))
\* getnews/clean.py main with --push: gist_download, the backup, parse_jsonl_content
PushDownload ==
    /\ call.fn = "getnews_clean_push"
    /\ call.phase = "start"
    /\ LET content == gist_download(call.gist, call.download)
       IN call' = [call EXCEPT !.phase = "downloaded",
                               !.backup = ~content.none,
                               !.existing_raw = IF content.none THEN << >>
                                                ELSE parse_jsonl_content(content.content)]
    /\ UNCHANGED <<ret, fetch_vars, clean_vars>>

\* the raw.jsonl another writer puts in the place of the gist's, versions being what
\* the gist held up to now. A second run of main --push uploads the merge of its
\* download, which gave a version of the gist, an older one, or failed
\* (existing_raw = []), with its stories. main of gists/restore-data.py and of getnews/migrate-to-unified.py
\* upload the deduplicated records of the old gists. main of gists/recover-jan27.py
\* uploads the deduplicated records of its download of the gist followed by those
\* of old gists
OtherUploads(versions) ==
    {getnews_merge(existing_raw, formatted) :
        existing_raw \in versions \cup OlderVersions, formatted \in OtherFormatted}
        \cup {dedupe_by_url(all_raw_records) : all_raw_records \in OldGistRecords}
        \cup {dedupe_by_url(current_records \o recovered_records) :
                 current_records \in versions, recovered_records \in OldGistRecords}

\* another writer of the gist uploads its raw.jsonl (gh gist edit replaces the file)
\* between the download and the upload of main
GistEdited ==
    /\ call.fn = "getnews_clean_push"
    /\ call.phase = "downloaded"
    /\ call.edits < MaxOtherWrites
    /\ \E uploaded \in OtherUploads(call.versions) :
          /\ uploaded # call.gist
          /\ call' = [call EXCEPT !.gist = uploaded, !.edits = @ + 1,
                                  !.versions = @ \cup {uploaded}]
    /\ UNCHANGED <<ret, fetch_vars, clean_vars>>

\* main with --push, from the merge on: save_jsonl(local_raw), then gist_upload; it
\* returns the raw.jsonl saved locally and what the gist holds afterwards
PushUpload ==
    /\ call.fn = "getnews_clean_push"
    /\ call.phase = "downloaded"
    /\ LET all_raw == getnews_merge(call.existing_raw, call.formatted)
           local_raw == RawJsonl(all_raw)
       IN /\ call' = [call EXCEPT !.phase = "uploaded",
                                  !.gist = parse_jsonl_content(
                                      gist_upload(RawJsonl(call.gist), local_raw,
                                                  call.upload))]
          /\ ret' = Returned([backup |-> call.backup, local_raw |-> local_raw,
                              uploaded |-> call.upload,
                              gist |-> gist_upload(RawJsonl(call.gist), local_raw,
                                                   call.upload)])
    /\ UNCHANGED <<fetch_vars, clean_vars>>
InitCalls ==
    /\ InitFetch
    /\ InitCleanFiles
    /\ topic_keywords = << >>
    /\ call \in Calls
    /\ ret = NoRet

NextCalls ==
    \/ CallIsTopicRelated
    \/ CallIsGazaRelated
    \/ CallReader
    \/ CallMerge
    \/ CallGetExpectedCount

\* one call of a function of the pipeline, on any of the inputs
SpecCalls == InitCalls /\ [][NextCalls]_vars

InitPush ==
    /\ InitFetch
    /\ InitCleanFiles
    /\ topic_keywords = << >>
    /\ call \in PushCalls
    /\ ret = NoRet

NextPush ==
    \/ PushDownload
    \/ GistEdited
    \/ PushUpload

\* one run of getnews/clean.py main with --push, other writers of the gist at work
SpecPush == InitPush /\ [][NextPush]_vars

\* ====================================================== properties

\* the lines of a urls.jsonl that belong to a unit
LinesIn(file, day, src) ==
    {i \in 1..Len(file) :
        file[i].publish_date = day_str(day) /\ file[i].media_url = src}
\* of the output file of the run
LinesOf(day, src) == LinesIn(out_file, day, src)
Held(day, src) == Cardinality(LinesOf(day, src))
HeldIds(day, src) == {out_file[i].id : i \in LinesOf(day, src)}
\* every urls.jsonl of raw/<topic>/: the earlier date directories and today's
RawFiles == Append(raw_dirs, out_file)
\* the ids of the records the record store holds for a unit
StoredIds(day, src) ==
    UNION {{RawFiles[f][i].id : i \in LinesIn(RawFiles[f], day, src)} :
              f \in 1..Len(RawFiles)}

MarkedComplete(day, src) == <<src, day>> \in checkpoint.completed
KnownCount(day, src) ==
    \E e \in checkpoint.expected_counts : e[1] = <<day, SourceId(src)>>
KnownCountOf(day, src) ==
    (CHOOSE e \in checkpoint.expected_counts : e[1] = <<day, SourceId(src)>>)[2]

\* main() stands between two units: after pre-scan, after a unit, after the loop
BetweenUnits == pc \in {"loop", "save_final", "done"}

\* C1 (as stated): between units, a unit is complete if and only if its last known
\* expected count is >= 0 and the records held for it are at least that many.
C1_CompleteIffCounted ==
    BetweenUnits =>
        \A u \in Units :
            MarkedComplete(u[1], u[2]) <=>
                (KnownCount(u[1], u[2]) /\ Held(u[1], u[2]) >= KnownCountOf(u[1], u[2]))

\* C2: a step whose expected-count lookup yields -1 leaves a unit that was not
\* complete not complete, however many of its records are held.
C2_UnknownCountNeverMarks ==
    [][\A u \in Units :
          (/\ last_lookup'.made
           /\ last_lookup'.unit = u
           /\ last_lookup'.value = -1
           /\ <<u[2], u[1]>> \notin checkpoint.completed)
          => <<u[2], u[1]>> \notin checkpoint'.completed]_vars

\* the lookup of a step returned -1 for a unit all of whose stories are held
C2_Witness ==
    /\ last_lookup.made
    /\ last_lookup.value = -1
    /\ Len(AllStories(query, last_lookup.unit[1], last_lookup.unit[2])) >= 2
    /\ SeqSet(AllStories(query, last_lookup.unit[1], last_lookup.unit[2]))
          \subseteq HeldIds(last_lookup.unit[1], last_lookup.unit[2])
    /\ ~MarkedComplete(last_lookup.unit[1], last_lookup.unit[2])

\* C3: load_checkpoint of a persisted checkpoint whose stored fingerprint differs
\* from the active query's returns the empty checkpoint carrying the active
\* fingerprint: nothing completed, nothing cached.
C3_QueryChangeResets ==
    ckpt_file.state = "json" =>
        \A q \in Queries :
            (ckpt_file.data.query_hash # "" /\
             ckpt_file.data.query_hash # get_query_hash(q)) =>
                /\ load_checkpoint(ckpt_file, q).completed = {}
                /\ load_checkpoint(ckpt_file, q).expected_counts = {}
                /\ load_checkpoint(ckpt_file, q).query_hash = get_query_hash(q)

\* a run has just loaded a checkpoint that records completed units and cached
\* counts under the other query
C3_Witness ==
    /\ pc = "prescan"
    /\ scan = 1
    /\ ckpt_file.state = "json"
    /\ ckpt_file.data.completed # {}
    /\ ckpt_file.data.expected_counts # {}
    /\ ckpt_file.data.query_hash # get_query_hash(query)
    /\ checkpoint.completed = {}

\* the records of a unit in the output file that the active query lists
HeldOfQuery(day, src) ==
    HeldIds(day, src) \cap SeqSet(AllStories(query, day, src))

\* C4 (as stated): the fetch loop skips a unit only if the records held for it that
\* the active query lists meet the active query's count; records of the previous
\* query never make pre-scan mark a unit complete.
C4_StaleRecordsNeverSuppress ==
    (pc = "loop" /\ idx <= NumUnits /\
     MarkedComplete(LoopUnit(idx)[1], LoopUnit(idx)[2])) =>
        Cardinality(HeldOfQuery(LoopUnit(idx)[1], LoopUnit(idx)[2]))
            >= Len(AllStories(query, LoopUnit(idx)[1], LoopUnit(idx)[2]))

\* the completed units of the persisted checkpoint, as a run of the active query reads it
PersistedCompleted ==
    IF ckpt_file.state = "json" /\ ckpt_file.data.query_hash = get_query_hash(query)
    THEN ckpt_file.data.completed
    ELSE {}

\* C5 (as stated): whenever the fetch loop is about to take up its next unit, every
\* unit marked complete in memory is in the persisted checkpoint file.
C5_MarksPersistedBeforeNextUnit ==
    pc = "loop" => checkpoint.completed \subseteq PersistedCompleted

\* a step that makes a story_list or a story_count call
MakesCall == (pc = "fetching" /\ pc' # "idle") \/ last_lookup'.made
\* the unit the step is at, as a member of checkpoint["completed"]
UnitAt == LET u == IF pc = "prescan" THEN PrescanUnit(scan) ELSE LoopUnit(idx)
          IN <<u[2], u[1]>>

\* C6 (as stated): a unit a run marked complete and persisted gets, in every later
\* run of the unchanged query, no story-list call and no count call, and no call is
\* made for a unit for which is_complete is true.
C6_PersistedUnitsMakeNoCalls ==
    [][MakesCall => /\ UnitAt \notin checkpoint.completed
                    /\ UnitAt \notin persisted]_vars

\* C6, the fetch loop alone: no story_list call for a unit once persisted
C6_PersistedUnitsNotFetched ==
    [][(pc = "fetching" /\ pc' # "idle") => UnitAt \notin persisted]_vars

\* C6, what holds: no story-list call and no count call is made for a unit that is
\* complete in the run's checkpoint or that the checkpoint file, as it is now, records
\* as complete under the unchanged query.
C6_CompleteUnitsMakeNoCalls ==
    [][MakesCall => /\ UnitAt \notin checkpoint.completed
                    /\ UnitAt \notin PersistedCompleted]_vars

\* a run of a later day has passed over its first unit, which has stories and which
\* the persisted checkpoint records as complete, without yielding a story
C6_Witness ==
    /\ raw_dirs # << >>
    /\ pc = "loop"
    /\ idx = 2
    /\ yielded = << >>
    /\ Len(AllStories(query, LoopUnit(1)[1], LoopUnit(1)[2])) > 0
    /\ <<LoopUnit(1)[2], LoopUnit(1)[1]>> \in PersistedCompleted

\* C7: no story id is on two lines of the output file, and every yielded story was
\* either written once or counted as skipped.
C7_NoDuplicateIds ==
    /\ \A f \in 1..Len(RawFiles) :
          \A i, j \in 1..Len(RawFiles[f]) :
              RawFiles[f][i].id = RawFiles[f][j].id => i = j
    /\ pc \in {"fetching", "yield", "count", "save_unit"} =>
          day_new + day_skipped = Len(yielded)

\* a resumed run met a story already in the file, skipped it, and wrote a new one
C7_Witness ==
    /\ pc = "count"
    /\ day_skipped >= 1
    /\ day_new >= 1
    /\ Len(out_file) >= 2

\* C8: as long as the query (the API's story set per unit) never changed, every unit
\* marked complete, in memory or in the persisted checkpoint, has every story the
\* API lists for it in the output file.
C8_CompleteUnitsHoldAllStories ==
    Cardinality(queries_run) <= 1 =>
        \A u \in Units :
            (MarkedComplete(u[1], u[2]) \/ <<u[2], u[1]>> \in PersistedCompleted) =>
                SeqSet(AllStories(query, u[1], u[2])) \subseteq StoredIds(u[1], u[2])

\* a run resumed a unit that a killed run left half written (one story of its single
\* page held, one new) and marked it complete
C8_Witness ==
    /\ pc = "save_unit"
    /\ query = QUERY_A
    /\ Cardinality(queries_run) = 1
    /\ day_skipped >= 1
    /\ day_new >= 1
    /\ MarkedComplete(LoopUnit(idx)[1], LoopUnit(idx)[2])

RECURSIVE DoublingWait(_)
\* 40 s at the first failure, doubled per further consecutive failure, at most 600 s
DoublingWait(n) ==
    IF n = 1 THEN 40 ELSE Min(2 * DoublingWait(n - 1), 600)

\* C9: after the n-th consecutive transient failure the wait is 40 * 2^(n-1) capped
\* at 600 seconds, and the failure counter is 0 after every successful page.
C9_BackoffDoublesToCap ==
    /\ (pc = "fetching" /\ consecutive_errors >= 1) =>
          /\ wait = DoublingWait(consecutive_errors)
          /\ wait >= 40
          /\ wait <= 600
          /\ last_exc # NoExc
    /\ pc \in {"yield", "count"} => consecutive_errors = 0

\* the fifth consecutive failure waits the maximum
C9_Witness ==
    /\ pc = "fetching"
    /\ consecutive_errors = 5
    /\ wait = 600

\* messages of the transient kinds: HTTP 429, connection failure, timeout, and the
\* JSON decode errors of an empty body and of a truncated one
TransientKinds ==
    { "429 Client Error: Too Many Requests",
      "HTTPSConnectionPool(host='search.mediacloud.org'): Max retries exceeded",
      "Read Timeout",
      "Expecting value: line 1 column 1 (char 0)",
      "Unterminated string starting at: line 1 column 9 (char 8)" }

\* whatever the failures retried, the stories yielded are the API's stories for the
\* unit, in order, no page skipped or repeated
RetriedPagesInOrder ==
    LET pages == StoryPages(query, LoopUnit(idx)[1], LoopUnit(idx)[2])
        delivered == IF pagination_token = NoToken THEN Len(pages)
                     ELSE pagination_token
    IN /\ pc = "fetching" => yielded = FlatPages(pages, pagination_token)
       /\ pc = "yield" => yielded \o page = FlatPages(pages, delivered)
       /\ pc = "count" => yielded = FlatPages(pages, Len(pages))

\* C10 (as stated): an error of a transient kind never aborts the unit being fetched:
\* the same page request is retried with the same continuation token, and the
\* stories yielded are the API's stories for the unit, in order, no page skipped or
\* repeated.
C10_TransientErrorsAreRetried ==
    /\ last_exc \in TransientKinds => pc = "fetching"
    /\ RetriedPagesInOrder

\* the positions of main() inside its fetch loop
InLoop == pc \in {"loop", "fetching", "yield", "count", "save_unit"}

\* C11: a story_list exception that is not transient leaves the unit being fetched
\* not complete, in memory and in the persisted checkpoint, and moves the loop to the
\* next unit in order; inside the loop only the unit whose count was just looked up
\* is ever marked, so a unit given up is not marked later in the run; and the loop
\* ends only after the last unit.
C11_FatalAbandonsUnitOnly ==
    [][LET u == LoopUnit(idx)
       IN /\ (pc = "fetching" /\ last_exc' # NoExc /\ ~IsTransient(last_exc')) =>
                /\ pc' = "loop"
                /\ idx' = idx + 1
                /\ checkpoint' = checkpoint
                /\ ckpt_file' = ckpt_file
                /\ <<u[2], u[1]>> \notin checkpoint'.completed
                /\ <<u[2], u[1]>> \notin PersistedCompleted'
          /\ (InLoop /\ pc' # "idle") =>
                /\ idx' \in {idx, idx + 1}
                /\ checkpoint'.completed # checkpoint.completed =>
                      /\ pc = "count"
                      /\ checkpoint'.completed = checkpoint.completed \cup {<<u[2], u[1]>>}
                /\ PersistedCompleted' \subseteq PersistedCompleted \cup checkpoint.completed
          /\ pc' \in {"save_final", "done"} => idx' = NumUnits + 1]_vars

\* a finished run gave up the three-story unit after its first page (two stories
\* written, the unit not complete) and went on to complete the next unit
C11_Witness ==
    /\ pc = "done"
    /\ query = QUERY_B
    /\ Held(1, "foxnews.com") = 2
    /\ ~MarkedComplete(1, "foxnews.com")
    /\ <<"foxnews.com", 1>> \notin PersistedCompleted
    /\ <<"cnn.com", 1>> \in PersistedCompleted

\* ====================================================== properties: cleaning stage
\* the articles.jsonl records the last clean run read
LastInput == last_clean.articles_entries

\* the entries of the clean output file
OutputEntries == load_jsonl(clean_file)

\* C12: every scrape record whose url has no metadata entry makes the clean run a
\* data-integrity fault: exit code non-zero, the url in the reported missing-URL
\* list, and no output file written.
C12_MissingMetadataIsFault ==
    last_clean.ran =>
       \A i \in 1..Len(LastInput) :
          ~HasUrlEntry(LastInput[i].url) =>
             /\ last_clean.exit_code # 0
             /\ \E j \in 1..Len(last_clean.loop.missing_urls) :
                   last_clean.loop.missing_urls[j] = LastInput[i].url
             /\ ~last_clean.wrote

\* the successful records of a url in the articles.jsonl a run read, and the fields
\* an output entry may have
ScrapedAs(articles_entries, url) ==
    {articles_entries[i] : i \in {j \in 1..Len(articles_entries) :
                                     /\ articles_entries[j].url = url
                                     /\ articles_entries[j].success}}
OutputKeys == KeySet(OUTPUT_KEY_ORDER)

\* e carries a's value of every output field a has, and the metadata value of every
\* output field only the metadata record has, except for the fields in `except`
EnrichedFrom(e, a, except) ==
    LET m == urls_by_url(a.url)
    IN /\ DOMAIN e \subseteq OutputKeys
       /\ \A k \in OutputKeys \ except :
             /\ k \in DOMAIN a => k \in DOMAIN e /\ e[k] = a[k]
             /\ k \notin DOMAIN a /\ k \in DOMAIN m => k \in DOMAIN e /\ e[k] = m[k]

\* e was an entry of the output before an append run, which writes it again
CarriedOver(e) ==
    /\ last_clean'.append
    /\ \E j \in 1..Len(OutputEntries) : OutputEntries[j] = e

\* e is a's record enriched, description cut to 50 words and my_topic the topic cleaned
EnrichedAndCut(e, a) ==
    /\ EnrichedFrom(e, a, {"description", "my_topic"})
    /\ e["my_topic"] = CleanTopic
    /\ "description" \in DOMAIN a =>
          /\ "description" \in DOMAIN e
          /\ e["description"] =
                IF a["description"] # None /\
                   Len(split(a["description"])) > MAX_DESCRIPTION_WORDS
                THEN join(" ", SubSeq(split(a["description"]), 1,
                                      MAX_DESCRIPTION_WORDS)) \o "..."
                ELSE a["description"]

\* C13 as stated: every record a clean run writes, unless an append run carries it
\* over from the output it found, is a descriptive record of the articles.jsonl the
\* run read enriched with its metadata record, descriptive values winning,
\* metadata-only fields carried over, only output-key-order fields present.
C13_OutputIsMergedVerbatim ==
    [][(clean_clock' # clean_clock /\ last_clean'.wrote) =>
          \A i \in 1..Len(OutputEntries') :
              \/ CarriedOver(OutputEntries'[i])
              \/ \E a \in ScrapedAs(raw_articles, OutputEntries'[i].url) :
                    EnrichedFrom(OutputEntries'[i], a, {})]_vars

\* C13 (amended): as above for every field but two: description is the descriptive
\* record's description cut to its first 50 words followed by "..." when it is
\* longer, and my_topic is the name of the topic cleaned.
C13_OutputIsEnrichedRecord ==
    [][(clean_clock' # clean_clock /\ last_clean'.wrote) =>
          \A i \in 1..Len(OutputEntries') :
              \/ CarriedOver(OutputEntries'[i])
              \/ \E a \in ScrapedAs(raw_articles, OutputEntries'[i].url) :
                    EnrichedAndCut(OutputEntries'[i], a)]_vars

\* an output holding a record with a cut description and one whose title differs
\* between the two streams
C13_Witness ==
    \E i, j \in 1..Len(OutputEntries) :
        /\ OutputEntries[i].url = "https://x/3"
        /\ Len(split(OutputEntries[i].description)) = MAX_DESCRIPTION_WORDS
        /\ OutputEntries[i].description # LONG_DESCRIPTION
        /\ OutputEntries[i].publish_date = DATE_JAN09
        /\ OutputEntries[j].url = "https://x/2"
        /\ OutputEntries[j].title = "World news"
        /\ urls_by_url("https://x/2").title = "World"
        /\ OutputEntries[j].media_url = "cnn.com"

\* no two entries of the list have the same url
DistinctUrls(entries) ==
    \A i, j \in 1..Len(entries) : i < j => entries[i].url # entries[j].url

\* C14: after any sequence of clean runs the output holds at most one record per
\* url; a raw record whose url is already in the existing output (append mode) or was
\* added earlier in the same run yields no second entry and is not counted in
\* count_added.
C14_OneRecordPerUrl ==
    [][clean_clock' # clean_clock =>
          LET before == UrlsOf(load_jsonl(clean_file))
              new == last_clean'.loop.new_entries
          IN /\ DistinctUrls(OutputEntries) => DistinctUrls(OutputEntries')
             /\ DistinctUrls(new)
             /\ last_clean'.loop.count_added = Len(new)
             /\ last_clean'.append => \A i \in 1..Len(new) : new[i].url \notin before
             /\ last_clean'.wrote =>
                   Len(OutputEntries') =
                      (IF last_clean'.append THEN Len(OutputEntries) ELSE 0) + Len(new)]_vars

\* a run over two scrape records of one url: one added, the other skipped
C14_Witness ==
    /\ last_clean.ran /\ Len(LastInput) = 2
    /\ LastInput[1].url = LastInput[2].url
    /\ last_clean.loop.count_added = 1
    /\ last_clean.loop.count_skipped_already_exists = 1
    /\ Len(OutputEntries) = 1

\* the record lines of a file, and its meta line without the timestamp
RecordLines(file) == SelectSeq(file.lines, LAMBDA line : ~IsMetaLine(line))
MetaSansTime(file) ==
    LET meta == SelectSeq(file.lines, IsMetaLine)
    IN [i \in 1..Len(meta) |-> SelectSeq(meta[i], LAMBDA pair : pair[1] # "last_updated")]

\* C15 as stated: a clean run on raw input unchanged since the run before leaves the
\* output file byte-identical.
C15_SecondRunByteIdentical ==
    [][(clean_clock' # clean_clock /\ last_clean.ran
        /\ last_clean.articles_entries = raw_articles) =>
          clean_file' = clean_file]_vars

\* C15 (amended): a clean run with the mode and topic configuration of the run
\* before, on raw input unchanged since, leaves the same records in the same order
\* with the same bytes; in append mode the file is byte-identical, in regenerate mode
\* only the last_updated value of the meta line differs.
C15_SecondRunSameRecords ==
    [][(clean_clock' # clean_clock /\ last_clean'.repeat) =>
          /\ clean_file'.exists = clean_file.exists
          /\ RecordLines(clean_file') = RecordLines(clean_file)
          /\ MetaSansTime(clean_file') = MetaSansTime(clean_file)
          /\ last_clean'.append => clean_file' = clean_file]_vars

\* a regenerate run repeated on the same input wrote two records again
C15_Witness ==
    /\ last_clean.repeat /\ ~last_clean.append /\ last_clean.wrote
    /\ Len(OutputEntries) = 2
    /\ clean_clock = 2
    /\ clean_file.lines[1][6] = <<"last_updated", 2>>

\* the orders a list can be given in, the entry list without one url, and the
\* publish_date an entry is sorted by
Orderings(entries) ==
    {[i \in 1..Len(entries) |-> entries[p[i]]] :
        p \in {q \in [1..Len(entries) -> 1..Len(entries)] :
                 \A i, j \in 1..Len(entries) : i # j => q[i] # q[j]}}
WithoutUrl(entries, url) == SelectSeq(entries, LAMBDA e : e.url # url)
DateOf(entry) == Get(entry, "publish_date", SENTINEL_DATE)
KeepUrls(entries, urls) == SelectSeq(entries, LAMBDA e : e.url \in urls)

\* records a run could add to an output: the sortable cleaned catalogue records
Insertable ==
    {BuildCleaned(urls_by_url(a.url), a) :
        a \in {b \in ArticleCatalogue :
                 /\ b.success /\ HasUrlEntry(b.url)
                 /\ ~SortKeyRaises(urls_by_url(b.url))}}

\* C16: the order of the sorted output is a function of the record set only: two
\* records of equal publish_date are ordered by the hash of their urls alone, every
\* permutation of the input list sorts to the same output, and inserting a further
\* unrelated record does not change the relative order of the records there.
C16_OrderIsFunctionOfRecordSet ==
    [][clean_clock' # clean_clock =>
          LET out == OutputEntries'
          IN /\ \A i, j \in 1..Len(out) :
                   (i < j /\ DateOf(out[i]) = DateOf(out[j])) =>
                       UrlHash(out[i].url) < UrlHash(out[j].url)
             /\ \A p \in Orderings(out) : SortEntries(p) = out
             /\ \A r \in Insertable :
                   r.url \notin UrlsOf(out) =>
                       /\ WithoutUrl(SortEntries(Append(out, r)), r.url) = out
                       /\ WithoutUrl(SortEntries(<<r>> \o out), r.url) = out
             /\ KeepUrls(out, UrlsOf(OutputEntries)) =
                   KeepUrls(OutputEntries, UrlsOf(out))]_vars

\* two records of one publish_date, scraped in one order and written in the other
C16_Witness ==
    /\ Len(LastInput) = 2 /\ Len(OutputEntries) = 2
    /\ LastInput[1].url = OutputEntries[2].url
    /\ LastInput[2].url = OutputEntries[1].url
    /\ DateOf(OutputEntries[1]) = DateOf(OutputEntries[2])
    /\ UrlHash(OutputEntries[1].url) < UrlHash(OutputEntries[2].url)

\* the publish_date strings of the metadata stream, and the placeholder
PublishDates ==
    {DateOf(urls_entries[i]) : i \in {j \in 1..Len(urls_entries) :
                                         ~SortKeyRaises(urls_entries[j])}}

\* equal length, the digits 0 to 9 in the same positions, the same characters
\* elsewhere, none of them a character int() rejects
ASCII_DIGITS == Chars("0123456789")
SameFormat(a, b) ==
    /\ Len(a) = Len(b)
    /\ ~InvertRaises(a)
    /\ \A i \in 1..Len(a) :
          IF CharAt(a, i) \in ASCII_DIGITS THEN CharAt(b, i) \in ASCII_DIGITS
          ELSE CharAt(a, i) = CharAt(b, i)

\* the output cut to a budget of n records, and what the cut drops
KeptAt(n) == SubSeq(OutputEntries, 1, n)
DroppedAt(n) == SubSeq(OutputEntries, n + 1, Len(OutputEntries))

\* C17 as stated: for any two publish_date strings the inverted key of a sorts before
\* that of b exactly when a sorts after b; the output is in descending publish_date
\* order and a cut to any budget drops only records no newer than every record kept.
C17_InversionReversesAnyDates ==
    /\ \A a, b \in PublishDates :
          StrLess(InvertDigits(a), InvertDigits(b)) <=> StrLess(b, a)
    /\ \A n \in 0..Len(OutputEntries) :
          \A i \in 1..Len(KeptAt(n)), j \in 1..Len(DroppedAt(n)) :
              ~StrLess(DateOf(KeptAt(n)[i]), DateOf(DroppedAt(n)[j]))

\* C17 (amended): the same for any two publish_date strings of the same format
\* (equal length, the digits 0 to 9 in the same positions, identical characters
\* elsewhere, none of which int() rejects), and for the records of an output whose
\* dates have the same format pairwise.
C17_InversionReversesSameFormatDates ==
    /\ \A a, b \in PublishDates :
          SameFormat(a, b) =>
             (StrLess(InvertDigits(a), InvertDigits(b)) <=> StrLess(b, a))
    /\ \A n \in 0..Len(OutputEntries) :
          \A i \in 1..Len(KeptAt(n)), j \in 1..Len(DroppedAt(n)) :
              SameFormat(DateOf(KeptAt(n)[i]), DateOf(DroppedAt(n)[j])) =>
                 ~StrLess(DateOf(KeptAt(n)[i]), DateOf(DroppedAt(n)[j]))

\* the older record was scraped first and is written last
C17_Witness ==
    /\ Len(LastInput) = 2 /\ Len(OutputEntries) = 2
    /\ LastInput[1].url = OutputEntries[2].url
    /\ DateOf(OutputEntries[1]) = DATE_JAN10
    /\ DateOf(OutputEntries[2]) = DATE_JAN09

\* the entry has no publish_date: the field is absent or null
Undated(entry) ==
    "publish_date" \notin DOMAIN entry \/ entry["publish_date"] = None

\* C18: a record with a missing publish_date (absent or without a value) is sorted
\* with the placeholder date and so appears after every dated record; the sort
\* completes for such records.
C18_UndatedRecordsSortLast ==
    /\ ~last_clean.raised
    /\ \A i, j \in 1..Len(OutputEntries) :
          (Undated(OutputEntries[i]) /\ ~Undated(OutputEntries[j])) => j < i


\* the records of the last run's input that reached the strict filter of a
\* regenerate run: successful, first of their url, with metadata, on topic
ReachedStrict ==
    {MergeDicts(urls_by_url(LastInput[i].url), LastInput[i]) :
        i \in {j \in 1..Len(LastInput) :
                 /\ LastInput[j].success
                 /\ HasUrlEntry(LastInput[j].url)
                 /\ \A h \in 1..(j - 1) : LastInput[h].url # LastInput[j].url
                 /\ is_topic_related(LastInput[j], FILTER_KEYWORDS, EXCLUDE_KEYWORDS)}}

\* the run kept the record
Accepted(record) == record.url \in UrlsOf(last_clean.loop.new_entries)

\* occurrences of a keyword in the title and in the description of a record
InTitle(record, kw) ==
    Contains(Lower(GetOrEmpty(record, "title")), Lower(kw))
TimesInDescription(record, kw) ==
    CountOccurrences(Lower(GetOrEmpty(record, "description")), Lower(kw), 1)

\* C19: strict filter boundary, for the record as gated in the clean pipeline: a
\* strict keyword twice or more in the description, or once in the title, gets the
\* record accepted; keywords at most once in the description and none in the title
\* get it rejected.
C19_StrictFilterBoundary ==
    (last_clean.ran /\ ~last_clean.append /\ topic_keywords # << >>) =>
       LET kws == topic_keywords
       IN \A r \in ReachedStrict :
             Accepted(r) <=>
                \E i \in 1..Len(kws) :
                    InTitle(r, kws[i]) \/ TimesInDescription(r, kws[i]) >= 2

\* the records of the last run's input as stories with their metadata
LastStories ==
    [i \in 1..Len(LastInput) |->
        IF HasUrlEntry(LastInput[i].url)
        THEN MergeDicts(urls_by_url(LastInput[i].url), LastInput[i])
        ELSE LastInput[i]]

\* C20: when the topic defines no strict keywords the strict filter is a pass-through:
\* every record that reaches the strict stage is accepted.
C20_NoStrictKeywordsPassThrough ==
    (last_clean.ran /\ topic_keywords = << >>) =>
       /\ last_clean.loop.count_skipped_not_relevant = 0
       /\ ~last_clean.append =>
             \A r \in ReachedStrict :
                 /\ Accepted(r)
                 /\ is_topic_relevant(BuildCleaned(urls_by_url(r.url), r), << >>)
       /\ \A i \in 1..Len(topic_raw(LastStories, << >>)) :
             /\ matches_strict_keywords(topic_raw(LastStories, << >>)[i], << >>)
             /\ topic_raw(LastStories, << >>)[i] =
                   topic_clean(LastStories, << >>)[i]

\* a run without strict keywords kept a record the topic's strict list would reject
C20_Witness ==
    /\ last_clean.ran /\ topic_keywords = << >> /\ last_clean.wrote
    /\ \E i \in 1..Len(OutputEntries), kws \in TopicKeywordLists :
          /\ OutputEntries[i].url \in UrlsOf(last_clean.loop.new_entries)
          /\ ~is_topic_relevant(OutputEntries[i], kws)

\* title + " " + description of an entry, lower-cased
LooseText(entry) ==
    Lower(GetOrEmpty(entry, "title") \o " " \o GetOrEmpty(entry, "description"))

\* some keyword of the list occurs in the text, case-insensitively
Occurs(kws, text) ==
    \E i \in 1..Len(kws) : Contains(text, Lower(kws[i]))

\* C21: is_topic_related returns true exactly when at least one broad keyword occurs,
\* case-insensitively, in title + " " + description and no configured exclude keyword
\* occurs in that text; with no exclude keywords (and in the single-topic cleaner) it
\* is true exactly when some broad keyword occurs.
C21_LooseFilterContract ==
    /\ (ret.made /\ call.fn = "is_topic_related") =>
          /\ ret.value <=> (/\ Occurs(call.filter_keywords, LooseText(call.entry))
                            /\ ~Occurs(call.exclude_keywords, LooseText(call.entry)))
          /\ call.exclude_keywords = << >> =>
                (ret.value <=> Occurs(call.filter_keywords, LooseText(call.entry)))
    /\ (ret.made /\ call.fn = "is_gaza_related") =>
          (ret.value <=> Occurs(CLEAN_FILTER_KEYWORDS, LooseText(call.entry)))

\* a broad keyword spans the end of the title and the start of the description, and
\* an exclude keyword written with a capital occurs too: the entry is rejected
C21_Witness ==
    /\ ret.made /\ call.fn = "is_topic_related" /\ ~ret.value
    /\ call.entry = [title |-> "United", description |-> "States visit"]
    /\ call.filter_keywords = FILTER_KEYWORDS
    /\ call.exclude_keywords = <<"visit", "golf">>

\* the metadata record of the url carries no language tag equal to "en"
NotEnglish(url) ==
    LET tag == Get(urls_by_url(url), "language", "")
    IN tag = NoneStr \/ Lower(tag) # "en"

\* the records of the last run's input that have metadata: successful, with a url
\* that the metadata stream knows
WithMetadata ==
    {j \in 1..Len(LastInput) :
        /\ Get(LastInput[j], "success", FALSE)
        /\ ~Falsy(Get(LastInput[j], "url", None))
        /\ HasUrlEntry(Get(LastInput[j], "url", None))}
NonEnglishInputs == {j \in WithMetadata : NotEnglish(LastInput[j].url)}
EnglishInputs == WithMetadata \ NonEnglishInputs

\* C22: a record whose metadata language tag is not "en" (case-insensitively), or
\* that has no language tag, is excluded and counted as non-English before either
\* keyword filter is evaluated: it is never counted as off-topic or not relevant
\* and never written.
C22_NonEnglishExcludedFirst ==
    /\ \A i \in 1..Len(OutputEntries) : ~NotEnglish(OutputEntries[i].url)
    /\ last_clean.ran =>
          /\ last_clean.loop.count_skipped_non_english = Cardinality(NonEnglishInputs)
          /\ last_clean.loop.count_skipped_not_topic <=
                Cardinality({j \in EnglishInputs :
                    ~is_topic_related(LastInput[j], FILTER_KEYWORDS, EXCLUDE_KEYWORDS)})
          /\ last_clean.loop.count_skipped_not_relevant <=
                Cardinality({j \in EnglishInputs :
                    is_topic_related(LastInput[j], FILTER_KEYWORDS, EXCLUDE_KEYWORDS)})

\* the lines of the file read whose object carries a truthy _manifest or _meta
FlaggedLines ==
    {i \in 1..Len(call.file.lines) :
        \E k \in 1..Len(call.file.lines[i]) :
            /\ call.file.lines[i][k][1] \in {"_manifest", "_meta"}
            /\ call.file.lines[i][k][2] = TRUE}
DataLines == (1..Len(call.file.lines)) \ FlaggedLines

\* the records a reader of a JSONL stream returned; none when it raised
RecordsRead ==
    IF call.fn # "load_records" THEN ret.value
    ELSE IF call.jsonl /\ ~ret.value.raised THEN ret.value.value
    ELSE << >>

\* C23: every reader of a record stream skips any line whose parsed object has a
\* truthy _manifest or _meta flag: no reader returns such an object as a record,
\* takes an id from it or counts it.
C23_ReadersSkipFlaggedLines ==
    /\ (ret.made /\ call.fn \in ListReaders) =>
          \A i \in 1..Len(RecordsRead) :
              /\ ~Flag(RecordsRead[i], "_manifest")
              /\ ~Flag(RecordsRead[i], "_meta")
    /\ (ret.made /\ call.fn = "load_existing_ids") =>
          ret.value \subseteq {ParsedLines(call.file)[i].id : i \in DataLines}
    /\ (ret.made /\ call.fn = "prescan_count" /\ ~ret.value.raised) =>
          ret.value.value <= Cardinality(DataLines)

\* the records handed to the merge, existing ones first
MergeInput == call.existing \o call.new

\* the records of a sequence that carry a url
WithUrl(records) == {i \in 1..Len(records) : "url" \in DOMAIN records[i]}

\* C24 (as stated): a merge of published records with new records returns at most
\* one record per url string, and the record it returns for a url is the first one
\* with that url in (existing, then new) order; the merge always returns.
C24_MergeFirstSeenWins ==
    (call.fn \in MergeFunctions /\ ret.made) =>
        /\ \A i, j \in WithUrl(ret.value) :
               ret.value[i].url = ret.value[j].url => i = j
        /\ \A i \in WithUrl(ret.value) :
               \E k \in WithUrl(MergeInput) :
                   /\ MergeInput[k] = ret.value[i]
                   /\ \A m \in WithUrl(MergeInput) :
                          MergeInput[m].url = ret.value[i].url => k <= m

\* C25 (as stated): every clean run prints its summary of counts, whatever its
\* outcome, a run that ends with a data-integrity fault included.
C25_SummaryAlwaysPrinted ==
    last_clean.ran => last_clean.summary

\* the successful scrape records the last clean run read that carry no url
SuccessfulWithoutUrl ==
    {i \in 1..Len(LastInput) :
        /\ Get(LastInput[i], "success", FALSE) = TRUE
        /\ Falsy(Get(LastInput[i], "url", None))}

\* C27 (as stated): a clean run that read a successful scrape record without a url
\* does not complete successfully: it does not write the output and end with
\* exit code 0.
C27_MissingUrlIsHardError ==
    (last_clean.ran /\ SuccessfulWithoutUrl # {}) =>
        ~(last_clean.wrote /\ last_clean.exit_code = 0)

\* a step in which a run of either stage ends with a configuration fault, and the
\* exit code of that run
FetchFaultStep == call'.fn = "fetch_main" /\ call_vars' # call_vars
CleanFaultStep == last_clean'.config_fault /\ last_clean' # last_clean
OtherErrorCodes == {EXIT_DATA_INTEGRITY, EXIT_MISSING_INPUT}

\* the files and directories of both stages, and the API calls made so far
PipelineFiles == <<ckpt_file, out_file, clean_file, tmp_file, combined_file>>
ApiCalls == <<pc, pagination_token, page, yielded, last_lookup, last_exc>>

\* C26 (as stated): a run that ends with a configuration fault (unknown topic, no
\* API key) makes no API call and creates or changes no file, and its exit code is
\* non-zero and is neither the code of the data-integrity fault nor the code of a
\* missing input file.
C26_ConfigFaultAtStartup ==
    [][/\ (FetchFaultStep \/ CleanFaultStep) =>
              /\ PipelineFiles' = PipelineFiles
              /\ ApiCalls' = ApiCalls
       /\ FetchFaultStep => ret'.value \notin {0} \cup OtherErrorCodes
       /\ CleanFaultStep => last_clean'.exit_code \notin {0} \cup OtherErrorCodes]_vars

\* the stories of the pages iter_stories has received, in order
Received == FlatPages(call.pages, Len(call.pages))

\* the answers after which iter_stories asks for nothing more: an empty page, or a
\* page with a null token
LastAnswer(i) == call.pages[i] = << >> \/ call.tokens[i] = NoToken

\* C28: iter_stories asks for pages of PAGE_SIZE (100) records, sending the token
\* of the page before, and yields the stories of the pages in order; it goes on
\* exactly while a token is present: every answer but the last came with stories
\* and a token, and it returns once the stories of the first page with a null token
\* are yielded, or at the first empty page.  While the API ends its transient
\* errors and in the end returns a null token or an empty page, the call ends.
C28_IterStoriesSafe ==
    call.fn = "iter_stories" =>
        /\ \A i \in 1..Len(call.pages) :
              /\ call.page_sizes[i] = PAGE_SIZE
              /\ Len(call.pages[i]) <= PAGE_SIZE
              /\ call.sent[i] = IF i = 1 THEN NoToken ELSE call.tokens[i - 1]
              /\ i < Len(call.pages) => ~LastAnswer(i)
        /\ \E n \in 0..Len(Received) : yielded = SubSeq(Received, 1, n)
        /\ pc \in {"fetching", "returned"} => yielded = Received
        /\ pc = "returned" <=>
              /\ call.pages # << >>
              /\ LastAnswer(Len(call.pages))
              /\ yielded = Received
        /\ pc = "returned" <=> (ret.made /\ ret.value = StopIteration)

C28_IterStories ==
    /\ []C28_IterStoriesSafe
    /\ (call.fn = "iter_stories") ~> ret.made

\* the call returned after a retried request and three pages, the last one with a
\* null token
C28_Witness ==
    /\ pc = "returned"
    /\ last_exc # NoExc
    /\ Len(call.pages) = MaxPages
    /\ call.pages[MaxPages] # << >>
    /\ Len(yielded) >= 4

\* a step of pre-scan's loop over the units, the unit it looks at, and whether the
\* step marks that unit complete
PrescanLooksAt == pc = "prescan" /\ scan <= NumUnits /\ scan' = scan + 1
NewlyMarked(u) ==
    <<u[2], u[1]>> \in checkpoint'.completed /\ <<u[2], u[1]>> \notin checkpoint.completed

\* what pre-scan leaves alone: completions made earlier, the other units, the
\* output file, and iter_stories (no story-list call)
PrescanFrame ==
    /\ checkpoint.completed \subseteq checkpoint'.completed
    /\ \A v \in Units : NewlyMarked(v) => v = PrescanUnit(scan)
    /\ UNCHANGED <<out_file, pc, pagination_token, page, yielded, last_exc>>

\* the expected count of the unit at the step: the count looked up, or, without a
\* lookup, the count the API holds
ExpectedAtStep(u) ==
    IF last_lookup'.made THEN last_lookup'.value ELSE Len(AllStories(query, u[1], u[2]))

\* C29 (as stated): a pre-scan step marks the unit it looks at if and only if the
\* unit is not yet complete and the records held for it meet its expected count
\* (expected >= 0 and held >= expected); it marks no other unit, removes no
\* completion and makes no story-list call.
C29_PrescanMarksEveryMetUnit ==
    [][PrescanLooksAt =>
          LET u == PrescanUnit(scan)
          IN /\ PrescanFrame
             /\ NewlyMarked(u) <=>
                   /\ ~MarkedComplete(u[1], u[2])
                   /\ ExpectedAtStep(u) >= 0
                   /\ Held(u[1], u[2]) >= ExpectedAtStep(u)]_vars

\* C29 (amended): a pre-scan step marks the unit it looks at if and only if the
\* unit is not yet complete, at least one record is held for it, and the records
\* held meet the expected count looked up (expected >= 0 and held >= expected); a
\* unit without a held record is left as it is and no count is looked up for it.
\* Pre-scan marks no other unit, removes no completion and makes no story-list call.
C29_PrescanMarksMetUnitsWithRecords ==
    [][PrescanLooksAt =>
          LET u == PrescanUnit(scan)
          IN /\ PrescanFrame
             /\ Held(u[1], u[2]) = 0 => ~last_lookup'.made
             /\ NewlyMarked(u) <=>
                   /\ ~MarkedComplete(u[1], u[2])
                   /\ Held(u[1], u[2]) > 0
                   /\ last_lookup'.made
                   /\ last_lookup'.value >= 0
                   /\ Held(u[1], u[2]) >= last_lookup'.value]_vars

\* pre-scan has just marked a unit on the records held for it and has before that
\* passed a unit without records, for which the API holds no story, unmarked
C29_Witness ==
    /\ pc = "prescan"
    /\ last_lookup.made
    /\ last_lookup.value >= 0
    /\ Held(last_lookup.unit[1], last_lookup.unit[2]) >= 2
    /\ MarkedComplete(last_lookup.unit[1], last_lookup.unit[2])
    /\ <<last_lookup.unit[2], last_lookup.unit[1]>> \notin PersistedCompleted
    /\ \E v \in Units :
          /\ Held(v[1], v[2]) = 0
          /\ AllStories(query, v[1], v[2]) = << >>

\* the step calls the count API for a unit; the step's lookup failed
CountApiCall == last_lookup'.made /\ last_lookup'.api
FailedLookup == last_lookup'.made /\ last_lookup'.value = -1

\* C30 (as stated): once a call of get_expected_count_cached got a count >= 0 for
\* a unit under a query, no later call for that unit, in the same run or in a
\* later run under that query, calls the count API; a lookup that fails (-1) has
\* called the API (it was not answered from the cache) and stores nothing.
C30_CountFetchedOnce ==
    [][/\ CountApiCall => <<query, last_lookup'.unit>> \notin call.counted
       /\ FailedLookup =>
             /\ last_lookup'.api
             /\ ~\E e \in checkpoint'.expected_counts :
                    e[1] = CacheKey(last_lookup'.unit[1], SourceId(last_lookup'.unit[2]))]_vars

\* the date on which the runs of the first calendar day execute: end_date =
\* dt.date.today(), the last day of the range (runs of a later date are given the
\* same range with --start and --end, and the day is then in the past)
Today == NumDays

\* the days that have a count in the cache, in memory and in the checkpoint file
CachedDays(expected_counts) == {e[1][1] : e \in expected_counts}

\* C31 (as stated): the count of the day on which the run executes is never stored
\* in the cache, in memory or in the checkpoint file, and no lookup for that day is
\* answered from the cache.
C31_TodayNeverCached ==
    raw_dirs = << >> =>
        /\ Today \notin CachedDays(checkpoint.expected_counts)
        /\ ckpt_file.state = "json" =>
               Today \notin CachedDays(ckpt_file.data.expected_counts)
        /\ (last_lookup.made /\ last_lookup.unit[1] = Today) => last_lookup.api

\* the answer that ends the call: the first one that is not a 429 failure, or the
\* third
EndingAnswer == call.script[Len(call.script)]
Is429(answer) == answer.kind = "raise" /\ Contains(answer.message, "429")

\* C32 (as stated): when the count API answers with a mapping, get_expected_count
\* returns its 'relevant' field whenever that is present, 'count' only when
\* 'relevant' is absent, and 0 only when neither is present; it returns -1 only
\* after a failure that is not a 429 or after three 429 failures.
C32_RelevantThenCountThenZero ==
    (call.fn = "get_expected_count" /\ ret.made) =>
        /\ EndingAnswer.kind = "dict" =>
              ret.value = IF "relevant" \in DOMAIN EndingAnswer.body
                          THEN EndingAnswer.body["relevant"]
                          ELSE IF "count" \in DOMAIN EndingAnswer.body
                               THEN EndingAnswer.body["count"]
                               ELSE 0
        /\ ret.value = -1 =>
              /\ EndingAnswer.kind = "raise"
              /\ Is429(EndingAnswer) => Len(call.script) = COUNT_ATTEMPTS

\* s is a prefix of t
IsPrefix(s, t) == Len(s) <= Len(t) /\ SubSeq(t, 1, Len(s)) = s

\* C33 (as stated): no step of the fetch, scrape or clean stage deletes, truncates
\* or rewrites a line of urls.jsonl or articles.jsonl; every step only appends.
C33_RawFilesAppendOnly ==
    [][IsPrefix(out_file, out_file') /\ IsPrefix(raw_articles, raw_articles')]_vars

\* the step in which a call of process_date_dir returns
ProcessReturns == call'.fn = "process_date_dir" /\ ret'.made /\ call_vars' # call_vars
\* the urls of the lines of urls.jsonl, and of the records of articles.jsonl
UrlsListed == {get_url(out_file[i]) : i \in 1..Len(out_file)}
UrlsScraped(records) == {get_url(records[i]) : i \in 1..Len(records)}
\* the records the step has added to articles.jsonl
Written == SubSeq(raw_articles', Len(raw_articles) + 1, Len(raw_articles'))

\* C36: whatever the order in which the workers complete, a call of process_date_dir
\* returns with exactly one result per distinct url to scrape, ok + fail is the
\* number of these urls, articles.jsonl is written only when no worker is pending,
\* and in resume mode no url already in articles.jsonl is scraped or written again.
C36_OneResultPerWorkUrl ==
    [][/\ ProcessReturns =>
            LET out == call'.out
                work == call'.work
            IN /\ SeqSet(work) = UrlsListed \ call'.already
               /\ call'.already = IF call'.no_resume THEN {}
                                  ELSE UrlsScraped(raw_articles)
               /\ \A u \in SeqSet(work) :
                     Cardinality({i \in 1..Len(out) : out[i].url = u}) = 1
               /\ Len(out) = Len(work)
               /\ call'.ok + call'.fail = Len(work)
               /\ call'.ok = Cardinality({i \in 1..Len(out) : out[i].success})
               /\ ret'.value = <<call'.ok, call'.fail>>
               /\ ~call'.no_resume =>
                     /\ raw_articles' = raw_articles \o out
                     /\ UrlsScraped(out) \cap UrlsScraped(raw_articles) = {}
       /\ (Scraping /\ raw_articles' # raw_articles) =>
             /\ call.queue = << >> /\ call.running = {} /\ call.done = {}
             /\ ProcessReturns]_vars

\* two workers completed in the order opposite to the submission
C36_Witness ==
    /\ call.fn = "process_date_dir" /\ ret.made
    /\ call.workers = 2
    /\ Len(call.out) = 2
    /\ call.out[1].url = call.work[2]
    /\ raw_articles = call.out

\* C34 (as stated): in getnews clean --push mode every record of the remote raw.jsonl
\* before the run is in the raw.jsonl the run uploads, whatever the outcome of the
\* download.
C34_PushKeepsRemoteRecords ==
    (call.fn = "getnews_clean_push" /\ ret.made /\ ret.value.uploaded) =>
        SeqSet(call.before) \subseteq SeqSet(ret.value.gist)

\* a step that is a run of the clean stage in default mode, writing allowed, that
\* ended without a fault
RegenerateStep ==
    /\ clean_clock' # clean_clock
    /\ ~last_clean'.append /\ ~last_clean'.no_write
    /\ last_clean'.exit_code = 0
\* the urls of the records of a clean file, the meta header left out
CleanFileUrls(file) == {e.url : e \in SeqSet(load_jsonl(file))}
\* the urls of the records that pass the filters, as the loop of the run found them
DerivableUrls(loop) == {e.url : e \in SeqSet(loop.new_entries)}

\* C35 (as stated): after a default-mode clean run that ends without a
\* data-integrity fault the records of clean/articles-<topic>.jsonl are exactly the
\* records derivable from the current raw data, also when none passes the filters.
C35_CleanRegeneratedFromRaw ==
    [][RegenerateStep =>
          CleanFileUrls(clean_file') = DerivableUrls(last_clean'.loop)]_vars

\* the manifest handed to the last update, the one it returned, and the dates added
Updated == call.fn = "update_manifest_after_run"
IsoDatesAdded == {isoformat(call.dates_added[i]) : i \in 1..Len(call.dates_added)}

\* C37: after every update_manifest_after_run call dates_collected is sorted and
\* duplicate-free and holds every date collected before and every date added,
\* coverage.end_date is the greatest collected date, gaps is exactly the set of days
\* from start_date to end_date that are not collected, and record_count is the
\* previous count plus new_record_count.
C37_ManifestAfterRun ==
    Updated =>
        LET before == call.manifest
            after == ret.value
            dates == after.dates_collected
            start == fromisoformat(after.coverage.start_date)
        IN /\ \A i \in 1..(Len(dates) - 1) : IsoLess(dates[i], dates[i + 1])
           /\ SeqSet(dates) = SeqSet(before.dates_collected) \cup IsoDatesAdded
           /\ after.record_count = before.record_count + call.new_record_count
           /\ dates # << >> =>
                 LET end == fromisoformat(after.coverage.end_date)
                 IN /\ \A d \in SeqSet(dates) :
                          d = after.coverage.end_date
                              \/ IsoLess(d, after.coverage.end_date)
                    /\ after.coverage.end_date \in SeqSet(dates)
                    /\ SeqSet(after.gaps) =
                          {isoformat(d) : d \in start..end} \ SeqSet(dates)
                    /\ Len(after.gaps) = Cardinality(SeqSet(after.gaps))

\* a second run added January 30 and February 1 to a manifest that starts on
\* January 30 and held February 1: January 31 is the gap
C37_Witness ==
    /\ Updated
    /\ call.manifest.dates_collected = <<isoformat(32)>>
    /\ call.dates_added = <<32, 30>>
    /\ ret.value.dates_collected = <<isoformat(30), isoformat(32)>>
    /\ ret.value.gaps = <<isoformat(31)>>
    /\ ret.value.record_count = 4

\* the records the loop of the last clean run has classified, outcome by outcome
OutcomeSum(loop) ==
    loop.count_skipped_not_success + loop.problems
        + loop.count_skipped_already_exists + Len(loop.missing_urls)
        + loop.count_skipped_non_english + loop.count_skipped_not_topic
        + loop.count_skipped_not_relevant + loop.count_added

\* C38: a clean run whose loop has ended has put every descriptive record into
\* exactly one outcome, so count_articles is the sum of the eight outcome counts; a
\* run that writes writes count_existing + count_added records.
C38_OneOutcomePerRecord ==
    /\ [](last_clean.ran /\ ~last_clean.loop.raised =>
             last_clean.count_articles = OutcomeSum(last_clean.loop))
    /\ [][(clean_clock' # clean_clock /\ last_clean'.wrote) =>
             Len(load_jsonl(clean_file')) =
                 Len(ExistingEntries(last_clean'.append, clean_file))
                     + last_clean'.loop.count_added]_vars

\* an append run over an output file with an entry: one record is already there,
\* the other is added, and two records are written
C38_Witness ==
    /\ last_clean.ran /\ last_clean.append /\ last_clean.wrote
    /\ last_clean.count_articles = 2
    /\ last_clean.loop.count_skipped_already_exists = 1
    /\ last_clean.loop.count_added = 1
    /\ Len(load_jsonl(clean_file)) = 2

\* the checkpoint file a run finds has no query fingerprint
FileWithoutFingerprint == ckpt_file.state = "json" /\ ckpt_file.data.query_hash = ""
\* the step in which main loads the checkpoint
LoadStep == pc \in {"idle", "done"} /\ pc' = "prescan"
\* the runs so far had one query, and the file found at first had no fingerprint
LegacyAdopted ==
    /\ call.fn = "load_checkpoint"
    /\ Cardinality(queries_run) = 1
    /\ pc # "idle"

\* C39: load_checkpoint adopts a persisted checkpoint without query fingerprint as
\* it is, completed units and cached counts included, stamped with the fingerprint
\* of the configured query; the fetch loop under that query begins none of its
\* completed units.
C39_LegacyCheckpointAdopted ==
    /\ [][(LoadStep /\ FileWithoutFingerprint) =>
             /\ checkpoint'.completed = ckpt_file.data.completed
             /\ checkpoint'.expected_counts = ckpt_file.data.expected_counts
             /\ checkpoint'.query_hash = get_query_hash(query')]_vars
    /\ [](LegacyAdopted =>
             /\ call.file.data.completed \subseteq checkpoint.completed
             /\ call.file.data.expected_counts \subseteq checkpoint.expected_counts)
    /\ [][(LegacyAdopted /\ pc = "loop" /\ pc' = "fetching") =>
             <<LoopUnit(idx)[2], LoopUnit(idx)[1]>>
                 \notin call.file.data.completed]_vars

\* a run under the second query over a file without fingerprint that marks every
\* unit complete: it ends with nothing fetched
C39_Witness ==
    /\ LegacyAdopted
    /\ pc = "done"
    /\ query = QUERY_B
    /\ call.file.data.completed = OutletSet \X Days
    /\ checkpoint.query_hash = get_query_hash(QUERY_B)
    /\ out_file = << >>

====
